---- MODULE Spec2Model ----
(***************************************************************************)
(* Linkerd trust rotator: the reconcile loop of LinkerdTrustRotation, the   *)
(* status recorder it writes through, and the control-plane and data-plane  *)
(* rollout engines.  One reconcile runs at a time; every API call of the    *)
(* reconcile is one step, with its outcome (success or error) an input.     *)
(***************************************************************************)
EXTENDS Integers, Sequences, FiniteSets, TLC

\* ---------------------------------------------------------------- bounds
\* protection.maxRolloutFailures ranges over 0..MaxFailuresBound
MaxFailuresBound == 2
\* number of control-plane Deployments carrying the control-plane-ns label
MaxCP == 1

\* ------------------------------------------------------- kinds, strategies
KindDeployment == "Deployment"
KindStatefulSet == "StatefulSet"
KindDaemonSet == "DaemonSet"
KindCR == "CustomResource"
Restart == "rolloutRestart"
Delete == "rolloutDelete"

PhaseIdle == "Idle"
PhaseDetecting == "Detecting"
PhaseDryRun == "DryRun"
PhaseRollingCP == "RollingCP"
PhaseRollingDP == "RollingDP"
PhaseSucceeded == "Succeeded"
PhaseFailed == "Failed"

ReasonSecretsDiverged == "SecretsDiverged"
ReasonMaxRetriesExceeded == "ReasonMaxRetriesExceeded"
ReasonCPRestarting == "ControlPlaneRestarting"
ReasonCPReady == "ControlPlaneReady"
ReasonDPBatchRestarting == "DataPlaneBatchRestarting"
ReasonDPThresholdReached == "DataPlaneThresholdReached"
ReasonRotationFailed == "RotationFailed"
ReasonDryRun == "DryRunCompleted"
ReasonCompleted == "Completed"

BundleStateSingle == "single"
BundleStateOverlap == "overlap"

\* ------------------------------------------------------------ the cluster
\* Name order of the API server (lists come back in key order).
NameRank(n) == CASE n = "a" -> 1 [] n = "d" -> 2 [] n = "k" -> 3 [] n = "s" -> 4 [] OTHER -> 5

\* The workloads that can exist in the data-plane namespace; inject tells
\* whether the pod template carries the selector annotation key=value.
Universe ==
  { [kind |-> KindDeployment, namespace |-> "ns1", name |-> "a", inject |-> TRUE],
    [kind |-> KindStatefulSet, namespace |-> "ns1", name |-> "s", inject |-> TRUE],
    [kind |-> KindCR, namespace |-> "ns1", name |-> "k", inject |-> TRUE],
    [kind |-> KindDeployment, namespace |-> "ns1", name |-> "z", inject |-> FALSE] }

Togglable == { o \in Universe : o.name = "a" }

\* spec.rollout.targetAnnotationSelector.targets, in declaration order
Targets ==
  << [kindType |-> KindDeployment, allowedNamespaces |-> <<"ns1">>,
      rolloutStrategy |-> "", gvk |-> TRUE, annotationBump |-> <<>>],
     [kindType |-> KindStatefulSet, allowedNamespaces |-> <<"ns1">>,
      rolloutStrategy |-> Delete, gvk |-> TRUE, annotationBump |-> <<>>],
     [kindType |-> KindCR, allowedNamespaces |-> <<"ns1">>,
      rolloutStrategy |-> "", gvk |-> TRUE,
      annotationBump |-> <<[key |-> "bump", value |-> "v"]>>] >>

\* target lists a resource can carry besides Targets: none at all, a scope
\* without namespaces, a CustomResource scope without apiGroup/version/kind,
\* a CustomResource scope without annotationBump
TargetsNone == <<>>

TargetsNoNamespaces ==
  << [kindType |-> KindDeployment, allowedNamespaces |-> <<>>,
      rolloutStrategy |-> "", gvk |-> TRUE, annotationBump |-> <<>>] >>

TargetsNoGVK ==
  << [kindType |-> KindCR, allowedNamespaces |-> <<"ns1">>,
      rolloutStrategy |-> "", gvk |-> FALSE,
      annotationBump |-> <<[key |-> "bump", value |-> "v"]>>] >>

TargetsNoBump ==
  << [kindType |-> KindCR, allowedNamespaces |-> <<"ns1">>,
      rolloutStrategy |-> "", gvk |-> TRUE, annotationBump |-> <<>>] >>

TargetChoices == {Targets, TargetsNone, TargetsNoNamespaces, TargetsNoGVK, TargetsNoBump}

\* ------------------------------------------------------------ sequences
RECURSIVE SortByName(_)
SortByName(S) ==
  IF S = {} THEN <<>>
  ELSE LET m == CHOOSE x \in S : \A y \in S : NameRank(x.name) <= NameRank(y.name)
       IN <<m>> \o SortByName(S \ {m})

RECURSIVE Concat(_)
Concat(ss) == IF ss = <<>> THEN <<>> ELSE Head(ss) \o Concat(Tail(ss))

\* ------------------------------------------------------------- the plan
\* the objects as the API server lists them straight from its store
KeyOrder(objs) == SortByName(objs)

\* client.List of one kind in one namespace; listed is the order the API
\* returns the objects in
ListKind(listed, kind, ns) ==
  SelectSeq(listed, LAMBDA o : o.kind = kind /\ o.namespace = ns)

\* sort.SliceStable by Name
RECURSIVE SortSliceStable(_)
SortSliceStable(l) ==
  IF l = <<>> THEN <<>>
  ELSE LET rest == SortSliceStable(Tail(l))
           before == SelectSeq(rest, LAMBDA o : NameRank(o.name) < NameRank(Head(l).name))
           after == SelectSeq(rest, LAMBDA o : ~(NameRank(o.name) < NameRank(Head(l).name)))
       IN before \o <<Head(l)>> \o after

\* the list of one scope and namespace as the loop walks it: only the
\* StatefulSet case sorts
ListWalked(listed, scope, ns) ==
  IF scope.kindType = KindStatefulSet
  THEN SortSliceStable(ListKind(listed, scope.kindType, ns))
  ELSE ListKind(listed, scope.kindType, ns)

WorkItemOf(o, scope) ==
  [kind |-> o.kind, namespace |-> o.namespace, name |-> o.name,
   strategy |-> IF scope.rolloutStrategy = "" THEN Restart ELSE scope.rolloutStrategy,
   bumpKey |-> IF scope.kindType = KindCR /\ scope.annotationBump # <<>>
               THEN scope.annotationBump[1].key ELSE "",
   bumpValue |-> IF scope.kindType = KindCR /\ scope.annotationBump # <<>>
                 THEN scope.annotationBump[1].value ELSE "",
   snapshot |-> o]

\* hasAnnotationOnTemplate / crHasTemplateAnnotation
HasInject(o) == o.inject

ScopeItems(listed, scope) ==
  Concat([n \in 1..Len(scope.allowedNamespaces) |->
    LET l == SelectSeq(ListWalked(listed, scope, scope.allowedNamespaces[n]), HasInject)
    IN [j \in 1..Len(l) |-> WorkItemOf(l[j], scope)]])

\* TRUE when the targets are rejected before or while listing
SelectFails(targets) ==
  \E t \in 1..Len(targets) :
     \/ Len(targets[t].allowedNamespaces) = 0
     \/ targets[t].kindType = KindCR /\ ~targets[t].gvk
     \/ targets[t].kindType \notin {KindDeployment, KindStatefulSet, KindDaemonSet, KindCR}

SelectLinkerdDataPlane(listed, targets) ==
  Concat([t \in 1..Len(targets) |-> ScopeItems(listed, targets[t])])

\* variant: no strategy in any line
HashLineNoStrategy(w) ==
  <<w.kind, w.namespace, w.name, "",
    IF w.kind = KindCR /\ w.bumpKey # "" THEN <<w.bumpKey, w.bumpValue>> ELSE <<>>>>

\* The text planHash feeds to SHA-1, one line per item; the digest is taken
\* to be injective on this text, so the text stands for the hash.
HashLine(w) ==
  CASE w.kind = KindDeployment -> <<w.kind, w.namespace, w.name, "", <<>>>>
    [] w.kind = KindDaemonSet -> <<w.kind, w.namespace, w.name, "", <<>>>>
    [] w.kind = KindStatefulSet -> <<w.kind, w.namespace, w.name, w.strategy, <<>>>>
    [] w.kind = KindCR -> <<w.kind, w.namespace, w.name, w.strategy,
                            IF w.bumpKey # "" THEN <<w.bumpKey, w.bumpValue>> ELSE <<>>>>
    [] OTHER -> <<w.kind, "", "", "", <<>>>>

planHash(queue) == [j \in 1..Len(queue) |-> HashLine(queue[j])]

WorkRef(w) == [kind |-> w.kind, namespace |-> w.namespace, name |-> w.name]

\* ------------------------------------------------------------ the status
\* LinkerdTrustRotationStatus.  A nil pointer is "nil" (scalars) or <<>>
\* (sub-documents); a stored time is "set", a time taken from the clock by
\* the running call is "now", one taken by an earlier call and never stored
\* is "old", the zero metav1.Time is "zero".
EmptyStatus ==
  [phase |-> "nil", reason |-> "nil", lastUpdated |-> "nil", completionTime |-> "nil",
   progress |-> <<>>, trust |-> <<>>, retries |-> <<>>, cursor |-> <<>>,
   dryRunPlan |-> <<>>]

\* cmp.Equal(before, after, statusCmpOptions()): LastUpdated is ignored
StatusEqual(a, b) ==
  [a EXCEPT !.lastUpdated = "nil"] = [b EXCEPT !.lastUpdated = "nil"]

\* What the API server stores of a time: a fresh time becomes a stored one,
\* the zero time marshals as null and is dropped.
StoredTime(t) == CASE t \in {"now", "old"} -> "set" [] t = "zero" -> "nil" [] OTHER -> t

\* the clock moves on: what a call read from it is in the past for the next
PastTime(t) == IF t = "now" THEN "old" ELSE t

Past(st) ==
  [st EXCEPT !.lastUpdated = PastTime(@), !.completionTime = PastTime(@),
             !.retries = IF @ = <<>> THEN @
                         ELSE << [@[1] EXCEPT !.lastErrorTime = PastTime(@)] >>]

\* JSON merge patch of one sub-document: the patch holds the fields that
\* differ between base and after and is applied to the stored document.
MergeOpt(per, base, after) ==
  IF after = base THEN per
  ELSE IF after = <<>> THEN <<>>
  ELSE IF base = <<>> \/ per = <<>> THEN after
  ELSE << [k \in DOMAIN after[1] |->
            IF after[1][k] = base[1][k] THEN per[1][k] ELSE after[1][k]] >>

StoredRetries(r) ==
  IF r = <<>> THEN r ELSE << [r[1] EXCEPT !.lastErrorTime = StoredTime(@)] >>

\* client.Status().Patch(obj, MergeFrom(oldObj)) as the API server applies it
MergePatch(per, base, after) ==
  [phase |-> IF after.phase = base.phase THEN per.phase ELSE after.phase,
   reason |-> IF after.reason = base.reason THEN per.reason ELSE after.reason,
   lastUpdated |-> StoredTime(after.lastUpdated),
   completionTime |-> IF after.completionTime = base.completionTime
                      THEN per.completionTime ELSE StoredTime(after.completionTime),
   progress |-> MergeOpt(per.progress, base.progress, after.progress),
   trust |-> MergeOpt(per.trust, base.trust, after.trust),
   retries |-> StoredRetries(MergeOpt(per.retries, base.retries, after.retries)),
   cursor |-> MergeOpt(per.cursor, base.cursor, after.cursor),
   dryRunPlan |-> IF after.dryRunPlan = base.dryRunPlan THEN per.dryRunPlan
                  ELSE after.dryRunPlan]

\* variant: the object the caller holds is replaced by the response
DecodeReplaces(into, resp) == resp

\* The response of the patch decoded into the object the caller holds: a
\* field the response omits keeps the value the object had.
DecodeInto(into, resp) ==
  [phase |-> IF resp.phase = "nil" THEN into.phase ELSE resp.phase,
   reason |-> IF resp.reason = "nil" THEN into.reason ELSE resp.reason,
   lastUpdated |-> IF resp.lastUpdated = "nil" THEN into.lastUpdated ELSE resp.lastUpdated,
   completionTime |-> IF resp.completionTime = "nil" THEN into.completionTime
                      ELSE resp.completionTime,
   progress |-> IF resp.progress = <<>> THEN into.progress ELSE resp.progress,
   trust |-> IF resp.trust = <<>> THEN into.trust ELSE resp.trust,
   retries |->
     IF resp.retries = <<>> THEN into.retries
     ELSE IF into.retries = <<>> THEN resp.retries
     ELSE << [count |-> resp.retries[1].count,
              lastError |-> IF resp.retries[1].lastError = "" THEN into.retries[1].lastError
                            ELSE resp.retries[1].lastError,
              lastFailed |-> IF resp.retries[1].lastFailed = <<>>
                             THEN into.retries[1].lastFailed
                             ELSE resp.retries[1].lastFailed,
              lastErrorTime |-> IF resp.retries[1].lastErrorTime = "nil"
                                THEN into.retries[1].lastErrorTime
                                ELSE resp.retries[1].lastErrorTime] >>,
   cursor |->
     IF resp.cursor = <<>> THEN into.cursor
     ELSE IF into.cursor = <<>> THEN resp.cursor
     ELSE << [resp.cursor[1] EXCEPT
               !.lastDone = IF @ = <<>> THEN into.cursor[1].lastDone ELSE @] >>,
   dryRunPlan |-> IF resp.dryRunPlan = <<>> THEN into.dryRunPlan ELSE resp.dryRunPlan]

\* calcPercent: round(100 * current / total), clamped
\* variant: the quotient is truncated, not rounded
calcPercentTruncates(current, total) ==
  IF total <= 0 THEN 0
  ELSE LET c0 == IF current < 0 THEN 0 ELSE current
           c == IF c0 > total THEN total ELSE c0
           p == (100 * c) \div total
       IN IF p < 0 THEN 0 ELSE IF p > 100 THEN 100 ELSE p

calcPercent(current, total) ==
  IF total <= 0 THEN 0
  ELSE LET c0 == IF current < 0 THEN 0 ELSE current
           c == IF c0 > total THEN total ELSE c0
           p == (200 * c + total) \div (2 * total)
       IN IF p < 0 THEN 0 ELSE IF p > 100 THEN 100 ELSE p

\* ---- the mutators: the status each one asks Patch to write
SetPhaseOf(st, phase, reason) == [st EXCEPT !.phase = phase, !.reason = reason]

\* variant: without current and total the percentage is kept
SetProgressNilKeepsPercent(st, cpReady) ==
  [st EXCEPT !.progress = << [controlPlaneReady |-> cpReady,
                              dataPlanePercent |-> IF st.progress = <<>> THEN 0
                                                   ELSE st.progress[1].dataPlanePercent] >>]

\* SetProgress with current and total nil
SetProgressNilOf(st, cpReady) ==
  [st EXCEPT !.progress = << [controlPlaneReady |-> cpReady, dataPlanePercent |-> 0] >>]

SetProgressOf(st, cpReady, current, total) ==
  [st EXCEPT !.progress = << [controlPlaneReady |-> cpReady,
                              dataPlanePercent |-> calcPercent(current, total)] >>]

SetTrustInfoOf(st, bundleState, currentFP, previousFP) ==
  [st EXCEPT !.trust = << [bundleState |-> bundleState, currentFP |-> currentFP,
                           previousFP |-> previousFP] >>]

\* variant: the cursor never names the item done last
SetPlanHashNoLastDone(st, workRef, next, total, hash) ==
  [st EXCEPT !.cursor = << [planHash |-> hash, next |-> next, total |-> total,
                            lastDone |-> <<>>] >>]

SetPlanHashOf(st, workRef, next, total, hash) ==
  [st EXCEPT !.cursor = << [planHash |-> hash, next |-> next, total |-> total,
                            lastDone |-> workRef] >>]

SetRetryOf(st, workRef, count, lastErr) ==
  [st EXCEPT !.retries = << [count |-> count, lastError |-> lastErr, lastFailed |-> workRef,
                             lastErrorTime |-> IF count > 0 /\ lastErr # ""
                                               THEN "now" ELSE "zero"] >>]

SetDryRunOutputOf(st, dryRunOutput) ==
  [st EXCEPT !.phase = PhaseDryRun, !.reason = ReasonDryRun,
             !.dryRunPlan = dryRunOutput, !.progress = <<>>]

MarkSucceededOf(st) ==
  [st EXCEPT !.phase = PhaseSucceeded, !.reason = ReasonCompleted, !.completionTime = "now"]

\* variant: no completion time
MarkFailedKeepsTime(st, reason) == [st EXCEPT !.phase = PhaseFailed, !.reason = reason]

MarkFailedOf(st, reason) ==
  [st EXCEPT !.phase = PhaseFailed, !.reason = reason, !.completionTime = "now"]

\* --------------------------------------------------------------- state
VARIABLES
  spec,          \* the rotation resource's spec (read by every reconcile)
  workloads,     \* the data-plane objects that exist in the cluster
  prevSecret,    \* previous-anchor secret: "absent", "same" as current, or "differs"
  bundleCerts,   \* number of CERTIFICATE blocks in the trust-roots ConfigMap
  status,        \* the status stored by the API server
  obj,           \* lTR.Status: the status held in memory by the running reconcile
  pc,            \* position of the reconcile ("idle" between reconciles)
  bundleStatus,  \* Reconcile's local bundleStatus
  cp,            \* RestartLinkerdControlPlane's locals
  dp,            \* RestartLinkerdDataPlane's locals
  log,           \* what the running reconcile has done to the cluster, in order
  result,        \* what Reconcile returned
  begin,         \* the stored retries and cursor when the reconcile started, and whether
                 \* it started right after a completed rotation with the cluster untouched
  hist,          \* the stored phases the reconcile went through, whether it wrote the status
  streak,        \* consecutive reconciles that failed on the same data-plane item
  sec,           \* one call of EnsureTrustSecrets on secrets with their data maps
  mut,           \* the last calls of the status mutators on one object
  plan,          \* selections of the data-plane plan on one cluster
  sts,           \* restartStatefulSetByDelete on the pods of one StatefulSet
  wait           \* one wait loop: its clock, its context, the reads it made

vars == <<spec, workloads, prevSecret, bundleCerts, status, obj, hist, pc, bundleStatus,
          cp, dp, log, result, begin, streak, sec, mut, plan, sts, wait>>

envVars == <<spec, workloads, prevSecret, bundleCerts>>

MaxCerts == 3

Plain(c) == ~c.dryRun /\ ~c.retrigger /\ ~c.runProxyCheck

SpecConfigs ==
  { c \in [dryRun : BOOLEAN, maxRolloutFailures : 0..MaxFailuresBound,
           retrigger : BOOLEAN, runProxyCheck : BOOLEAN,
           onSecretsDiff : BOOLEAN, onConfigMapChange : BOOLEAN,
           bootstrap : BOOLEAN, beforeRolloutDelay : BOOLEAN,
           holdAfterCleanup : BOOLEAN, targets : TargetChoices] :
      /\ c.beforeRolloutDelay = c.runProxyCheck
      /\ c.holdAfterCleanup = c.retrigger
      /\ c.bootstrap => c.retrigger
      /\ c.targets # Targets =>
            (Plain(c) /\ c.onSecretsDiff /\ ~c.onConfigMapChange /\ c.maxRolloutFailures = 0)
      /\ ~(c.dryRun /\ c.retrigger) /\ ~(c.dryRun /\ c.runProxyCheck)
      /\ ~(c.retrigger /\ c.runProxyCheck)
      /\ c.maxRolloutFailures > 0 => (Plain(c) /\ c.onSecretsDiff /\ ~c.onConfigMapChange)
      /\ c.onConfigMapChange => Plain(c)
      /\ c.onSecretsDiff \/ Plain(c) }

NoCP == [todo |-> <<>>, rolled |-> {}]
NoDP == [n |-> 0, queue |-> <<>>, start |-> 0, processed |-> 0, i |-> 0,
         inited |-> FALSE, resumed |-> FALSE, cursor0 |-> <<>>, itemCursor |-> <<>>, itemRetries |-> <<>>,
         failedStep |-> "", recorded |-> FALSE, completed |-> 0]
NoStreak == [item |-> <<>>, n |-> 0]
NoBegin == [retries |-> <<>>, cursor |-> <<>>, afterSuccess |-> FALSE]
NoHist == [phases |-> <<>>, wrote |-> FALSE]
NoWait == [pc |-> "idle", for |-> "", i |-> 0, kind |-> "", now |-> 0, cancelled |-> FALSE,
           onDelete |-> FALSE, last |-> <<>>, out |-> "", jobs |-> <<>>]
NoSts == [pc |-> "idle", pods |-> <<>>, listed |-> <<>>, order |-> <<>>, i |-> 0,
          deleted |-> <<>>, seen |-> <<>>]

NoPlan == [perm |-> <<>>, rv |-> 0, choice |-> <<>>, targets |-> <<>>, queue |-> <<>>, selected |-> FALSE,
           prev |-> <<>>]

NoMut == [n |-> 0, last |-> <<>>, prev |-> <<>>, before |-> <<>>, issued |-> FALSE,
          ok |-> FALSE, prevIssued |-> FALSE, clean |-> TRUE, stale |-> FALSE,
          onStale |-> FALSE]
NoSec == [cur |-> <<>>, prev |-> <<>>, prev0 |-> <<>>, called |-> FALSE, out |-> <<>>]

Init ==
  /\ spec \in SpecConfigs
  /\ workloads = Universe
  /\ prevSecret = "same"
  /\ bundleCerts = 1
  /\ status = EmptyStatus
  /\ obj = EmptyStatus
  /\ pc = "idle"
  /\ bundleStatus = ""
  /\ cp = NoCP
  /\ dp = NoDP
  /\ log = <<>>
  /\ result = ""
  /\ begin = NoBegin
  /\ hist = NoHist
  /\ streak = NoStreak
  /\ sec = NoSec
  /\ mut = NoMut
  /\ plan = NoPlan
  /\ sts = NoSts
  /\ wait = NoWait

\* ------------------------------------------------------ the status Patch
\* Patch: skip the write when nothing but lastUpdated would change; else
\* stamp lastUpdated and send the merge patch, which the API accepts (ok)
\* or rejects.
PatchIssued(after) == ~StatusEqual(obj, after)

PatchErr(after, ok) == PatchIssued(after) /\ ~ok

Patch(after, ok) ==
  /\ ok \/ PatchIssued(after)
  /\ IF ~PatchIssued(after) THEN UNCHANGED <<status, obj, hist>>
     ELSE LET stamped == [after EXCEPT !.lastUpdated = "now"] IN
          IF ok THEN /\ status' = MergePatch(status, obj, stamped)
                     /\ obj' = Past(DecodeInto(stamped, MergePatch(status, obj, stamped)))
                     /\ hist' = [phases |-> IF status'.phase # status.phase
                                            THEN Append(hist.phases, status'.phase)
                                            ELSE hist.phases,
                                 wrote |-> TRUE]
          ELSE /\ status' = status
               /\ obj' = Past(stamped)
               /\ hist' = hist

Finish(res) == pc' = "done" /\ result' = res

\* ----------------------------------------------------- the environment
EnvToggleWorkload(o) ==
  /\ pc = "idle"
  /\ o \in Togglable
  /\ workloads' = IF o \in workloads THEN workloads \ {o} ELSE workloads \cup {o}
  /\ begin' = NoBegin
  /\ UNCHANGED <<spec, prevSecret, bundleCerts, status, obj, hist, pc, bundleStatus, cp, dp,
                 log, result, streak, sec, mut, plan, sts, wait>>

\* cert-manager rotates the anchor (current and previous then differ), or an
\* operator aligns or removes the previous-anchor secret
EnvSecrets(v) ==
  /\ pc = "idle"
  /\ v \in {"absent", "same", "differs"}
  /\ v # prevSecret
  /\ spec.onSecretsDiff \/ spec.retrigger
  /\ prevSecret' = v
  /\ begin' = NoBegin
  /\ UNCHANGED <<spec, workloads, bundleCerts, status, obj, hist, pc, bundleStatus, cp, dp,
                 log, result, streak, sec, mut, plan, sts, wait>>

EnvBundle(k) ==
  /\ pc = "idle"
  /\ k \in 1..MaxCerts
  /\ k # bundleCerts
  /\ spec.onConfigMapChange
  /\ bundleCerts' = k
  /\ begin' = NoBegin
  /\ UNCHANGED <<spec, workloads, prevSecret, status, obj, hist, pc, bundleStatus, cp, dp,
                 log, result, streak, sec, mut, plan, sts, wait>>

\* ---------------------------------------------------------- Reconcile
\* r.Client.Get into a fresh object
StartReconcile ==
  /\ pc = "idle"
  /\ pc' = "setIdle"
  /\ obj' = status
  /\ begin' = [retries |-> status.retries, cursor |-> status.cursor,
                afterSuccess |-> begin.afterSuccess]
  /\ hist' = NoHist
  /\ UNCHANGED <<envVars, status, bundleStatus, cp, dp, log, result, streak, sec, mut, plan, sts, wait>>

SetPhaseIdle(ok) ==
  /\ pc = "setIdle"
  /\ Patch(SetPhaseOf(obj, PhaseIdle, ""), ok)
  /\ IF PatchErr(SetPhaseOf(obj, PhaseIdle, ""), ok) THEN Finish("error")
     ELSE pc' = "setProgress" /\ UNCHANGED result
  /\ UNCHANGED <<envVars, bundleStatus, cp, dp, log, begin, streak, sec, mut, plan, sts, wait>>

SetProgressIdle(ok) ==
  /\ pc = "setProgress"
  /\ Patch(SetProgressNilOf(obj, TRUE), ok)
  /\ IF PatchErr(SetProgressNilOf(obj, TRUE), ok) THEN Finish("error")
     ELSE pc' = "detect" /\ UNCHANGED result
  /\ UNCHANGED <<envVars, bundleStatus, cp, dp, log, begin, streak, sec, mut, plan, sts, wait>>

\* EnsureTrustSecrets: Diverged, and whether the previous secret is created
SecretsDiverged(prev) == prev = "differs"

EnsureFails(prev, bootstrap) == prev = "absent" /\ ~bootstrap

AfterEnsure(prev, bootstrap) == IF prev = "absent" /\ bootstrap THEN "same" ELSE prev

\* bootstrapPreviousSecrets is called: the Create of the previous secret
CreatesPrevious(prev, bootstrap) == prev = "absent" /\ bootstrap

LogEnsure(l, prev, bootstrap) ==
  IF CreatesPrevious(prev, bootstrap) THEN Append(l, <<"createPrev", 0>>) ELSE l

\* LoadAndInspectCMBundle: the State it reports
BundleStateOf(certs) == IF certs = 1 THEN BundleStateSingle ELSE BundleStateOverlap

\* variant: with both triggers either condition is enough
DetectStatusEither(sp, prev, certs) ==
  IF (sp.onSecretsDiff /\ SecretsDiverged(prev))
     \/ (sp.onConfigMapChange /\ BundleStateOf(certs) = BundleStateOverlap)
  THEN BundleStateOverlap ELSE BundleStateSingle

\* the trigger switch of Reconcile: the bundleStatus it computes
DetectStatus(sp, prev, certs) ==
  CASE sp.onSecretsDiff /\ ~sp.onConfigMapChange ->
         IF SecretsDiverged(prev) THEN BundleStateOverlap ELSE BundleStateSingle
    [] sp.onConfigMapChange /\ ~sp.onSecretsDiff ->
         IF BundleStateOf(certs) = BundleStateOverlap THEN BundleStateOverlap
         ELSE BundleStateSingle
    [] OTHER ->
         IF SecretsDiverged(prev) /\ BundleStateOf(certs) = BundleStateOverlap
         THEN BundleStateOverlap ELSE BundleStateSingle

\* variant: the bundle-only case accepts any number of fingerprints
DetectFailsAnyCount(sp, prev, certs) ==
  \/ ~sp.onSecretsDiff /\ ~sp.onConfigMapChange
  \/ sp.onSecretsDiff /\ EnsureFails(prev, sp.bootstrap)

\* TRUE when the trigger switch returns an error by itself
DetectFails(sp, prev, certs) ==
  \/ ~sp.onSecretsDiff /\ ~sp.onConfigMapChange
  \/ sp.onSecretsDiff /\ EnsureFails(prev, sp.bootstrap)
  \/ sp.onConfigMapChange /\ ~sp.onSecretsDiff /\ certs \notin {1, 2}

\* the fingerprints handed to SetTrustInfo
TrustOf(sp, prev, certs) ==
  IF sp.onSecretsDiff
  THEN [currentFP |-> "fpCurrent",
        previousFP |-> IF prev = "differs" THEN "fpPrevious" ELSE "fpCurrent"]
  ELSE IF certs = 1 THEN [currentFP |-> "fp0", previousFP |-> "fp0"]
  ELSE [currentFP |-> "fp1", previousFP |-> "fp0"]

\* variant: the limit is reached at count = maxRolloutFailures
MaxRetriesReachedAtLimit(st, sp) ==
  st.retries # <<>> /\ st.retries[1].count >= sp.maxRolloutFailures

\* variant: one failure more than the limit is tolerated
MaxRetriesReachedLate(st, sp) ==
  st.retries # <<>> /\ st.retries[1].count > sp.maxRolloutFailures + 1

\* Reconcile after SetTrustInfo: which branch runs
MaxRetriesReached(st, sp) ==
  st.retries # <<>> /\ st.retries[1].count > sp.maxRolloutFailures

\* variant: the retry limit is checked before the dry-run switch
AfterDetectLimitFirst(bs, sp, st) ==
  IF bs # BundleStateOverlap THEN "requeue"
  ELSE IF MaxRetriesReached(st, sp) THEN "maxRetries"
  ELSE IF sp.dryRun THEN "dryRun"
  ELSE "setDetecting"

AfterDetect(bs, sp, st) ==
  IF bs # BundleStateOverlap THEN "requeue"
  ELSE IF sp.dryRun THEN "dryRun"
  ELSE IF MaxRetriesReached(st, sp) THEN "maxRetries"
  ELSE "setDetecting"

\* the operator switches a resource that has reached its retry limit to dry run
EnvEnableDryRun ==
  /\ pc = "idle"
  /\ ~spec.dryRun
  /\ MaxRetriesReached(status, spec)
  /\ spec' = [spec EXCEPT !.dryRun = TRUE]
  /\ begin' = NoBegin
  /\ UNCHANGED <<workloads, prevSecret, bundleCerts, status, obj, hist, pc, bundleStatus, cp,
                 dp, log, result, streak, sec, mut, plan, sts, wait>>

\* the reads of the trigger switch, then SetTrustInfo
Detect(apiOk, ok) ==
  /\ pc = "detect"
  /\ IF ~apiOk \/ DetectFails(spec, prevSecret, bundleCerts)
     THEN /\ ok
          /\ prevSecret' = IF apiOk /\ spec.onSecretsDiff THEN AfterEnsure(prevSecret, spec.bootstrap)
                           ELSE prevSecret
          /\ log' = IF apiOk /\ spec.onSecretsDiff
                    THEN LogEnsure(log, prevSecret, spec.bootstrap) ELSE log
          /\ Finish("error")
          /\ UNCHANGED <<status, obj, hist, bundleStatus>>
     ELSE LET prev == IF spec.onSecretsDiff THEN AfterEnsure(prevSecret, spec.bootstrap)
                      ELSE prevSecret
              bs == DetectStatus(spec, prev, bundleCerts)
              tr == TrustOf(spec, prev, bundleCerts)
              after == SetTrustInfoOf(obj, bs, tr.currentFP, tr.previousFP)
          IN /\ prevSecret' = prev
             /\ log' = IF spec.onSecretsDiff
                       THEN LogEnsure(log, prevSecret, spec.bootstrap) ELSE log
             /\ bundleStatus' = bs
             /\ Patch(after, ok)
             /\ IF PatchErr(after, ok) THEN Finish("error")
                ELSE IF AfterDetect(bs, spec, obj') = "requeue" THEN Finish("requeue10s")
                ELSE pc' = AfterDetect(bs, spec, obj') /\ UNCHANGED result
  /\ UNCHANGED <<spec, workloads, bundleCerts, cp, dp, begin, streak, sec, mut, plan, sts, wait>>

\* the dry-run branch: build the plan, store its dump, change nothing
DryRunDump(queue) ==
  << [j \in 1..Len(queue) |-> [kind |-> queue[j].kind, namespace |-> queue[j].namespace,
                               name |-> queue[j].name, strategy |-> queue[j].strategy]] >>

DryRun(listOk, ok) ==
  /\ pc = "dryRun"
  /\ IF ~listOk \/ SelectFails(spec.targets)
     THEN /\ ok
          /\ Finish("error")
          /\ UNCHANGED <<status, obj, hist>>
     ELSE LET after == SetDryRunOutputOf(obj,
                         DryRunDump(SelectLinkerdDataPlane(KeyOrder(workloads), spec.targets)))
          IN /\ Patch(after, ok)
             /\ IF PatchErr(after, ok) THEN Finish("error") ELSE Finish("none")
  /\ UNCHANGED <<envVars, bundleStatus, cp, dp, log, begin, streak, sec, mut, plan, sts, wait>>

\* the retry limit: event, phase Failed, requeue after one minute
MaxRetries(ok) ==
  /\ pc = "maxRetries"
  /\ log' = Append(log, <<"MaxRetriesExceeded", 0>>)
  /\ Patch(SetPhaseOf(obj, PhaseFailed, ReasonMaxRetriesExceeded), ok)
  /\ IF PatchErr(SetPhaseOf(obj, PhaseFailed, ReasonMaxRetriesExceeded), ok)
     THEN Finish("error") ELSE Finish("requeue1m")
  /\ UNCHANGED <<envVars, bundleStatus, cp, dp, begin, streak, sec, mut, plan, sts, wait>>

SetPhaseDetecting(ok) ==
  /\ pc = "setDetecting"
  /\ Patch(SetPhaseOf(obj, PhaseDetecting, ReasonSecretsDiverged), ok)
  /\ IF PatchErr(SetPhaseOf(obj, PhaseDetecting, ReasonSecretsDiverged), ok)
     THEN Finish("error") ELSE pc' = "beforeDelay" /\ UNCHANGED result
  /\ UNCHANGED <<envVars, bundleStatus, cp, dp, log, begin, streak, sec, mut, plan, sts, wait>>

\* the reconcile has seen its context cancelled (ctx.Done() in a wait)
Cancelled == \E j \in 1..Len(log) : log[j] = <<"cancelled", 0>>

\* a status patch the reconcile sends after that
LogPatch(after) ==
  IF Cancelled /\ PatchIssued(after) THEN Append(log, <<"statusPatch", 0>>) ELSE log

\* waitWithPurpose: no wait without a duration; else the timer fires (ok)
\* or the context is cancelled
WaitBeforeRollout(ok) ==
  /\ pc = "beforeDelay"
  /\ ok \/ spec.beforeRolloutDelay
  /\ IF ok THEN pc' = "delIssuer" /\ UNCHANGED result ELSE Finish("error")
  /\ UNCHANGED <<envVars, status, obj, hist, bundleStatus, cp, dp, log, begin, streak, sec, mut, plan, sts, wait>>

\* DeleteSecrets(linkerd-identity-issuer); not-found counts as success
DeleteIssuerSecret(ok) ==
  /\ pc = "delIssuer"
  /\ IF ok THEN /\ pc' = "cpSelect"
                /\ log' = Append(log, <<"delIssuer", 0>>)
                /\ UNCHANGED result
     ELSE Finish("error") /\ UNCHANGED log
  /\ UNCHANGED <<envVars, status, obj, hist, bundleStatus, cp, dp, begin, streak, sec, mut, plan, sts, wait>>

\* ------------------------------------------- RestartLinkerdControlPlane
\* the control-plane Deployments, named 1..MaxCP, sorted by descending name
ControlPlaneOrder == [j \in 1..MaxCP |-> MaxCP - j + 1]

\* variant: Reconcile goes on to the data plane whatever the control plane returned
AfterControlPlaneIgnoresError(err) == "dpSelect"

\* Reconcile after RestartLinkerdControlPlane returned
AfterControlPlane(err) == IF err THEN "markFailed" ELSE "dpSelect"

CPSelect(ok) ==
  /\ pc = "cpSelect"
  /\ IF ok THEN pc' = "cpSetPhase" /\ cp' = [cp EXCEPT !.todo = ControlPlaneOrder]
     ELSE pc' = AfterControlPlane(TRUE) /\ UNCHANGED cp
  /\ UNCHANGED <<envVars, status, obj, hist, bundleStatus, dp, log, result, begin, streak, sec, mut, plan, sts, wait>>

CPSetPhase(ok) ==
  /\ pc = "cpSetPhase"
  /\ Patch(SetPhaseOf(obj, PhaseRollingCP, ReasonCPRestarting), ok)
  /\ pc' = IF PatchErr(SetPhaseOf(obj, PhaseRollingCP, ReasonCPRestarting), ok)
           THEN AfterControlPlane(TRUE) ELSE "cpSetProgress"
  /\ UNCHANGED <<envVars, bundleStatus, cp, dp, log, result, begin, streak, sec, mut, plan, sts, wait>>

CPSetProgressFalse(ok) ==
  /\ pc = "cpSetProgress"
  /\ Patch(SetProgressNilOf(obj, FALSE), ok)
  /\ pc' = IF PatchErr(SetProgressNilOf(obj, FALSE), ok) THEN AfterControlPlane(TRUE)
           ELSE IF cp.todo = <<>> THEN "cpReadyProgress" ELSE "cpBump"
  /\ UNCHANGED <<envVars, bundleStatus, cp, dp, log, result, begin, streak, sec, mut, plan, sts, wait>>

\* bumpRestartAnnotation on the next control-plane Deployment
CPBump(ok) ==
  /\ pc = "cpBump"
  /\ IF ok THEN pc' = "cpWait" /\ log' = Append(log, <<"cpPatch", Head(cp.todo)>>)
     ELSE pc' = AfterControlPlane(TRUE) /\ UNCHANGED log
  /\ UNCHANGED <<envVars, status, obj, hist, bundleStatus, cp, dp, result, begin, streak, sec, mut, plan, sts, wait>>

\* waitDeploymentRolledOut on it
CPWait(ok) ==
  /\ pc = "cpWait"
  /\ IF ok
     THEN /\ log' = Append(log, <<"cpReady", Head(cp.todo)>>)
          /\ cp' = [todo |-> Tail(cp.todo), rolled |-> cp.rolled \cup {Head(cp.todo)}]
          /\ pc' = IF Tail(cp.todo) = <<>> THEN "cpReadyProgress" ELSE "cpBump"
     ELSE pc' = AfterControlPlane(TRUE) /\ UNCHANGED <<cp, log>>
  /\ UNCHANGED <<envVars, status, obj, hist, bundleStatus, dp, result, begin, streak, sec, mut, plan, sts, wait>>

CPSetProgressTrue(ok) ==
  /\ pc = "cpReadyProgress"
  /\ Patch(SetProgressNilOf(obj, TRUE), ok)
  /\ pc' = IF PatchErr(SetProgressNilOf(obj, TRUE), ok) THEN AfterControlPlane(TRUE)
           ELSE "cpReadyPhase"
  /\ UNCHANGED <<envVars, bundleStatus, cp, dp, log, result, begin, streak, sec, mut, plan, sts, wait>>

CPSetPhaseReady(ok) ==
  /\ pc = "cpReadyPhase"
  /\ Patch(SetPhaseOf(obj, PhaseRollingCP, ReasonCPReady), ok)
  /\ pc' = AfterControlPlane(PatchErr(SetPhaseOf(obj, PhaseRollingCP, ReasonCPReady), ok))
  /\ log' = IF PatchErr(SetPhaseOf(obj, PhaseRollingCP, ReasonCPReady), ok) THEN log
            ELSE Append(log, <<"cpDone", 0>>)
  /\ UNCHANGED <<envVars, bundleStatus, cp, dp, result, begin, streak, sec, mut, plan, sts, wait>>

\* MarkFailed(ReasonRotationFailed, err) and return the error
MarkFailed(ok) ==
  /\ pc = "markFailed"
  /\ Patch(MarkFailedOf(obj, ReasonRotationFailed), ok)
  /\ log' = LogPatch(MarkFailedOf(obj, ReasonRotationFailed))
  /\ Finish("error")
  /\ UNCHANGED <<envVars, bundleStatus, cp, dp, begin, streak, sec, mut, plan, sts, wait>>

\* -------------------------------------------- RestartLinkerdDataPlane
\* variant: Reconcile goes on to the cleanup whatever the rollout returned
AfterDataPlaneIgnoresError(err, n) == IF n = 1 THEN "delPrev" ELSE "markSucceeded"

\* Reconcile after RestartLinkerdDataPlane returned (n: first or second rollout)
AfterDataPlane(err, n) ==
  IF err THEN "markFailed" ELSE IF n = 1 THEN "delPrev" ELSE "markSucceeded"

\* variant: the resume test without the plan hash
ResumesAnyPlan(cur, hash, total) ==
  cur # <<>> /\ cur[1].next > 0 /\ cur[1].next <= total

\* the resume test on the cursor held in memory
Resumes(cur, hash, total) ==
  cur # <<>> /\ cur[1].planHash = hash /\ cur[1].next > 0 /\ cur[1].next <= total

\* variant: a resumed rollout starts over
StartIndexZero(cur, hash, total) == 0

StartIndex(cur, hash, total) == IF Resumes(cur, hash, total) THEN cur[1].next ELSE 0

\* the for loop: the item at index i, or the end of the loop
LoopPc(i, total) == IF i < total THEN "dpRestart" ELSE "dpFinishPhase"

\* variant: the loop skips every other item
NextIndexSkips(i) == i + 2

\* the loop's i++
NextIndex(i) == i + 1

\* variant: processed is bumped twice per item
BumpProcessedTwice(processed) == processed + 2

\* bumpProgress: processed++
BumpProcessed(processed) == processed + 1

\* variant: recordFailure rewrites the count it read
FailureCountKept(st) == IF st.retries = <<>> THEN 0 ELSE st.retries[1].count

\* the loop's current work item
Item == dp.queue[dp.i + 1]

\* variant: the count starts again when another item fails
FailureCountPerItem(st) ==
  IF st.retries # <<>> /\ st.retries[1].lastFailed = <<WorkRef(Item)>>
  THEN st.retries[1].count + 1 ELSE 1

\* recordFailure: the count it writes
FailureCount(st) == (IF st.retries = <<>> THEN 0 ELSE st.retries[1].count) + 1

DPSelect(ok) ==
  /\ pc = "dpSelect"
  /\ IF ok /\ ~SelectFails(spec.targets)
     THEN /\ pc' = "dpSetPhase"
          /\ dp' = [NoDP EXCEPT !.n = dp.n + 1, !.completed = dp.completed,
                                !.queue = SelectLinkerdDataPlane(KeyOrder(workloads), spec.targets)]
          /\ log' = Append(log, <<"dpStart", dp.n + 1>>)
     ELSE /\ pc' = AfterDataPlane(TRUE, dp.n + 1)
          /\ dp' = [NoDP EXCEPT !.n = dp.n + 1, !.completed = dp.completed]
          /\ log' = Append(log, <<"dpStart", dp.n + 1>>)
  /\ UNCHANGED <<envVars, status, obj, hist, bundleStatus, cp, result, begin, streak, sec, mut, plan, sts, wait>>

DPSetPhase(ok) ==
  /\ pc = "dpSetPhase"
  /\ Patch(SetPhaseOf(obj, PhaseRollingDP, ReasonDPBatchRestarting), ok)
  /\ pc' = IF PatchErr(SetPhaseOf(obj, PhaseRollingDP, ReasonDPBatchRestarting), ok)
           THEN AfterDataPlane(TRUE, dp.n) ELSE "dpInit"
  /\ UNCHANGED <<envVars, bundleStatus, cp, dp, log, result, begin, streak, sec, mut, plan, sts, wait>>

\* resume at cursor.next, or write the initial cursor
DPInitCursor(ok) ==
  /\ pc = "dpInit"
  /\ LET hash == planHash(dp.queue)
         total == Len(dp.queue)
         start == StartIndex(obj.cursor, hash, total)
         after == IF Resumes(obj.cursor, hash, total) THEN obj
                  ELSE SetPlanHashOf(obj, <<>>, 0, total, hash)
     IN /\ Patch(after, ok)
        /\ dp' = [dp EXCEPT !.inited = TRUE, !.start = start, !.processed = start,
                            !.i = start, !.resumed = Resumes(obj.cursor, hash, total),
                            !.cursor0 = status.cursor]
        /\ pc' = IF PatchErr(after, ok) THEN AfterDataPlane(TRUE, dp.n) ELSE "dpProgress"
  /\ UNCHANGED <<envVars, bundleStatus, cp, log, result, begin, streak, sec, mut, plan, sts, wait>>

DPSetProgress(ok) ==
  /\ pc = "dpProgress"
  /\ Patch(SetProgressOf(obj, TRUE, dp.processed, Len(dp.queue)), ok)
  /\ pc' = IF PatchErr(SetProgressOf(obj, TRUE, dp.processed, Len(dp.queue)), ok)
           THEN AfterDataPlane(TRUE, dp.n) ELSE LoopPc(dp.i, Len(dp.queue))
  /\ UNCHANGED <<envVars, bundleStatus, cp, dp, log, result, begin, streak, sec, mut, plan, sts, wait>>

\* a custom resource needs both bump annotation key and value
BumpMissing(w) == w.kind = KindCR /\ (w.bumpKey = "" \/ w.bumpValue = "")

\* the restart of the item: template bump, CR annotation bump, or pod deletes
DPApplyRestart(ok) ==
  /\ pc = "dpRestart"
  /\ ok => ~BumpMissing(Item)
  /\ IF ok
     THEN /\ log' = Append(log, <<"restart", dp.i>>)
          /\ pc' = "dpWait"
          /\ dp' = [dp EXCEPT !.itemCursor = status.cursor, !.itemRetries = status.retries]
     ELSE /\ pc' = "dpRecordFailure"
          /\ dp' = [dp EXCEPT !.itemCursor = status.cursor, !.itemRetries = status.retries,
                              !.failedStep = "restart"]
          /\ UNCHANGED log
  /\ UNCHANGED <<envVars, status, obj, hist, bundleStatus, cp, result, begin, streak, sec, mut, plan, sts, wait>>

\* the per-kind wait: rolled out (ok), or timeout, read error, cancellation
DPWait(ok) ==
  /\ pc = "dpWait"
  /\ IF ok THEN /\ log' = Append(log, <<"ready", dp.i>>)
                /\ pc' = "dpCheck"
                /\ UNCHANGED dp
     ELSE /\ pc' = "dpRecordFailure"
          /\ dp' = [dp EXCEPT !.failedStep = "wait"]
          /\ UNCHANGED log
  /\ UNCHANGED <<envVars, status, obj, hist, bundleStatus, cp, result, begin, streak, sec, mut, plan, sts, wait>>

\* runProxyCheckIfEnabled
DPProxyCheck(ok) ==
  /\ pc = "dpCheck"
  /\ ok \/ spec.runProxyCheck
  /\ IF ok THEN /\ log' = IF spec.runProxyCheck THEN Append(log, <<"verified", dp.i>>)
                          ELSE log
                /\ pc' = "dpBumpCursor"
                /\ UNCHANGED dp
     ELSE /\ pc' = "dpRecordFailure"
          /\ dp' = [dp EXCEPT !.failedStep = "check"]
          /\ UNCHANGED log
  /\ UNCHANGED <<envVars, status, obj, hist, bundleStatus, cp, result, begin, streak, sec, mut, plan, sts, wait>>

\* bumpProgress, first half: processed++ and the cursor
DPBumpCursor(ok) ==
  /\ pc = "dpBumpCursor"
  /\ LET after == SetPlanHashOf(obj, <<WorkRef(Item)>>, BumpProcessed(dp.processed),
                                Len(dp.queue), planHash(dp.queue))
     IN /\ Patch(after, ok)
        /\ IF PatchErr(after, ok)
           THEN /\ pc' = "dpRecordFailure"
                /\ dp' = [dp EXCEPT !.processed = BumpProcessed(@), !.failedStep = "cursor"]
           ELSE /\ pc' = "dpBumpProgress"
                /\ dp' = [dp EXCEPT !.processed = BumpProcessed(@)]
  /\ UNCHANGED <<envVars, bundleStatus, cp, log, result, begin, streak, sec, mut, plan, sts, wait>>

\* bumpProgress, second half: the progress
DPBumpProgress(ok) ==
  /\ pc = "dpBumpProgress"
  /\ LET after == SetProgressOf(obj, TRUE, dp.processed, Len(dp.queue))
     IN /\ Patch(after, ok)
        /\ IF PatchErr(after, ok)
           THEN /\ pc' = "dpRecordFailure"
                /\ dp' = [dp EXCEPT !.failedStep = "progress"]
                /\ UNCHANGED log
           ELSE /\ pc' = LoopPc(NextIndex(dp.i), Len(dp.queue))
                /\ dp' = [dp EXCEPT !.i = NextIndex(@)]
                /\ log' = Append(log, <<"done", dp.i>>)
  /\ UNCHANGED <<envVars, bundleStatus, cp, result, begin, streak, sec, mut, plan, sts, wait>>

\* cause.Error(): the text of the wait that failed, "err" for any other error
Cause == IF wait.pc = "returned" /\ wait.out # "ok" THEN wait.out ELSE "err"

\* recordFailure: retries.count + 1 for the item, then return the error
DPRecordFailure(ok) ==
  /\ pc = "dpRecordFailure"
  /\ LET after == SetRetryOf(obj, <<WorkRef(Item)>>, FailureCount(obj), Cause)
     IN /\ Patch(after, ok)
        /\ dp' = [dp EXCEPT !.recorded = ~PatchErr(after, ok)]
        /\ log' = LogPatch(after)
  /\ pc' = AfterDataPlane(TRUE, dp.n)
  /\ UNCHANGED <<envVars, bundleStatus, cp, result, begin, streak, sec, mut, plan, sts, wait>>

DPFinishPhase(ok) ==
  /\ pc = "dpFinishPhase"
  /\ Patch(SetPhaseOf(obj, PhaseRollingDP, ReasonDPThresholdReached), ok)
  /\ pc' = IF PatchErr(SetPhaseOf(obj, PhaseRollingDP, ReasonDPThresholdReached), ok)
           THEN AfterDataPlane(TRUE, dp.n) ELSE "dpClearRetry"
  /\ UNCHANGED <<envVars, bundleStatus, cp, dp, log, result, begin, streak, sec, mut, plan, sts, wait>>

\* variant: the retries are left as they are
RetriesKeptOf(st) == st

\* SetRetry(nil, 0, "") after the loop
RetriesClearedOf(st) == SetRetryOf(st, <<>>, 0, "")

DPClearRetry(ok) ==
  /\ pc = "dpClearRetry"
  /\ Patch(RetriesClearedOf(obj), ok)
  /\ pc' = IF PatchErr(RetriesClearedOf(obj), ok)
           THEN AfterDataPlane(TRUE, dp.n) ELSE "dpResetCursor"
  /\ UNCHANGED <<envVars, bundleStatus, cp, dp, log, result, begin, streak, sec, mut, plan, sts, wait>>

DPResetCursor(ok) ==
  /\ pc = "dpResetCursor"
  /\ LET after == SetPlanHashOf(obj, <<>>, 0, Len(dp.queue), planHash(dp.queue))
     IN /\ Patch(after, ok)
        /\ IF PatchErr(after, ok)
           THEN pc' = AfterDataPlane(TRUE, dp.n) /\ UNCHANGED <<dp, log>>
           ELSE /\ pc' = AfterDataPlane(FALSE, dp.n)
                /\ dp' = [dp EXCEPT !.completed = @ + 1]
                /\ log' = Append(log, <<"dpDone", dp.n>>)
  /\ UNCHANGED <<envVars, bundleStatus, cp, result, begin, streak, sec, mut, plan, sts, wait>>

\* ------------------------------------------------- cleanup and retrigger
\* variant: the second rollout follows the cleanup without the hold
AfterCleanupSkipsHold(retrigger) == IF retrigger THEN "ensureAgain" ELSE "markSucceeded"

\* Reconcile after the previous secret was deleted
AfterCleanup(retrigger) == IF retrigger THEN "hold" ELSE "markSucceeded"

\* DeleteSecrets(previous trust anchor)
DeletePreviousSecret(ok) ==
  /\ pc = "delPrev"
  /\ IF ok THEN /\ prevSecret' = "absent"
                /\ log' = Append(log, <<"delPrev", 0>>)
                /\ pc' = AfterCleanup(spec.retrigger)
                /\ UNCHANGED result
     ELSE Finish("error") /\ UNCHANGED <<prevSecret, log>>
  /\ UNCHANGED <<spec, workloads, bundleCerts, status, obj, hist, bundleStatus, cp, dp, begin,
                 streak, sec, mut, plan, sts, wait>>

WaitHold(ok) ==
  /\ pc = "hold"
  /\ ok \/ spec.holdAfterCleanup
  /\ IF ok THEN /\ pc' = "ensureAgain"
                /\ log' = Append(log, <<"held", 0>>)
                /\ UNCHANGED result
     ELSE Finish("error") /\ UNCHANGED log
  /\ UNCHANGED <<envVars, status, obj, hist, bundleStatus, cp, dp, begin, streak, sec, mut, plan, sts, wait>>

\* EnsureTrustSecrets before the second rollout
EnsureAgain(ok) ==
  /\ pc = "ensureAgain"
  /\ IF ok /\ ~EnsureFails(prevSecret, spec.bootstrap)
     THEN /\ prevSecret' = AfterEnsure(prevSecret, spec.bootstrap)
          /\ log' = LogEnsure(log, prevSecret, spec.bootstrap)
          /\ pc' = "dpSelect"
          /\ UNCHANGED result
     ELSE Finish("error") /\ UNCHANGED <<prevSecret, log>>
  /\ UNCHANGED <<spec, workloads, bundleCerts, status, obj, hist, bundleStatus, cp, dp,
                 begin, streak, sec, mut, plan, sts, wait>>

MarkSucceeded(ok) ==
  /\ pc = "markSucceeded"
  /\ Patch(MarkSucceededOf(obj), ok)
  /\ IF PatchErr(MarkSucceededOf(obj), ok) THEN Finish("error") ELSE Finish("requeue10s")
  /\ UNCHANGED <<envVars, bundleStatus, cp, dp, log, begin, streak, sec, mut, plan, sts, wait>>

\* Reconcile has returned; the framework forgets the request's locals
FailedItemNow == IF dp.failedStep # "" /\ dp.recorded THEN <<WorkRef(Item)>> ELSE <<>>

StreakAfter ==
  IF FailedItemNow = <<>> THEN NoStreak
  ELSE IF streak.n > 0 /\ streak.item = FailedItemNow THEN [streak EXCEPT !.n = @ + 1]
  ELSE IF dp.itemRetries = <<>> \/ dp.itemRetries[1].count = 0
       THEN [item |-> FailedItemNow, n |-> 1]
  ELSE NoStreak

\* the reconcile that returns ran the rotation to its end
RotationCompleted ==
  /\ result = "requeue10s"
  /\ \E j \in 1..Len(log) : log[j][1] = "delPrev"

Return ==
  /\ pc = "done"
  /\ pc' = "idle"
  /\ obj' = EmptyStatus
  /\ bundleStatus' = ""
  /\ cp' = NoCP
  /\ dp' = NoDP
  /\ log' = <<>>
  /\ result' = ""
  /\ begin' = [NoBegin EXCEPT !.afterSuccess = RotationCompleted]
  /\ hist' = NoHist
  /\ streak' = StreakAfter
  /\ UNCHANGED <<envVars, status, sec, mut, plan, sts, wait>>

Next ==
  \/ \E o \in Togglable : EnvToggleWorkload(o)
  \/ \E v \in {"absent", "same", "differs"} : EnvSecrets(v)
  \/ \E k \in 1..MaxCerts : EnvBundle(k)
  \/ EnvEnableDryRun
  \/ StartReconcile
  \/ \E ok \in BOOLEAN : SetPhaseIdle(ok)
  \/ \E ok \in BOOLEAN : SetProgressIdle(ok)
  \/ \E apiOk, ok \in BOOLEAN : Detect(apiOk, ok)
  \/ \E listOk, ok \in BOOLEAN : DryRun(listOk, ok)
  \/ \E ok \in BOOLEAN : MaxRetries(ok)
  \/ \E ok \in BOOLEAN : SetPhaseDetecting(ok)
  \/ \E ok \in BOOLEAN : WaitBeforeRollout(ok)
  \/ \E ok \in BOOLEAN : DeleteIssuerSecret(ok)
  \/ \E ok \in BOOLEAN : CPSelect(ok)
  \/ \E ok \in BOOLEAN : CPSetPhase(ok)
  \/ \E ok \in BOOLEAN : CPSetProgressFalse(ok)
  \/ \E ok \in BOOLEAN : CPBump(ok)
  \/ \E ok \in BOOLEAN : CPWait(ok)
  \/ \E ok \in BOOLEAN : CPSetProgressTrue(ok)
  \/ \E ok \in BOOLEAN : CPSetPhaseReady(ok)
  \/ \E ok \in BOOLEAN : MarkFailed(ok)
  \/ \E ok \in BOOLEAN : DPSelect(ok)
  \/ \E ok \in BOOLEAN : DPSetPhase(ok)
  \/ \E ok \in BOOLEAN : DPInitCursor(ok)
  \/ \E ok \in BOOLEAN : DPSetProgress(ok)
  \/ \E ok \in BOOLEAN : DPApplyRestart(ok)
  \/ \E ok \in BOOLEAN : DPWait(ok)
  \/ \E ok \in BOOLEAN : DPProxyCheck(ok)
  \/ \E ok \in BOOLEAN : DPBumpCursor(ok)
  \/ \E ok \in BOOLEAN : DPBumpProgress(ok)
  \/ \E ok \in BOOLEAN : DPRecordFailure(ok)
  \/ \E ok \in BOOLEAN : DPFinishPhase(ok)
  \/ \E ok \in BOOLEAN : DPClearRetry(ok)
  \/ \E ok \in BOOLEAN : DPResetCursor(ok)
  \/ \E ok \in BOOLEAN : DeletePreviousSecret(ok)
  \/ \E ok \in BOOLEAN : WaitHold(ok)
  \/ \E ok \in BOOLEAN : EnsureAgain(ok)
  \/ \E ok \in BOOLEAN : MarkSucceeded(ok)
  \/ Return

Spec == Init /\ [][Next]_vars

\* ------------------------------------------------ EnsureTrustSecrets
\* The secrets with their data: a data map is nil or a set of key/value
\* pairs; a value is the PEM text it holds.
secretDataKey == "tls.crt"

Certs == {"certA", "certB"}

DataChoices ==
  { [nil |-> TRUE, m |-> {}],
    [nil |-> FALSE, m |-> {}],
    [nil |-> FALSE, m |-> {<<secretDataKey, "certA">>}],
    [nil |-> FALSE, m |-> {<<secretDataKey, "certB">>}],
    [nil |-> FALSE, m |-> {<<secretDataKey, "certA">>, <<"ca.crt", "certB">>}],
    [nil |-> FALSE, m |-> {<<secretDataKey, "junk">>}],
    [nil |-> FALSE, m |-> {<<"ca.crt", "certA">>}] }

\* a secret in the cluster, or none
SecretChoices ==
  {<<>>} \cup { << [data |-> d, annotated |-> FALSE] >> : d \in DataChoices }

\* cSecret.Data[secretDataKey]: no bytes when the key is missing
Lookup(d, k) ==
  IF \E kv \in d.m : kv[1] = k THEN (CHOOSE kv \in d.m : kv[1] = k)[2] ELSE ""

\* fingerprintPEMCerts fails without a CERTIFICATE block that parses
FingerprintFails(pem) == pem \notin Certs

fingerprintPEMCerts(pem) == <<"sha256", pem>>

\* variant: the data maps are compared by their fingerprints
FingerprintsEqual(a, b) == Lookup(a, secretDataKey) = Lookup(b, secretDataKey)

\* cmp.Equal with EquateEmpty: nil and empty maps are equal
cmpEqual(a, b) == (a.m = {} /\ b.m = {}) \/ (a.nil = b.nil /\ a.m = b.m)

\* bootstrapPreviousSecrets: the secret it creates
bootstrapPreviousSecrets(cSecret) == << [data |-> cSecret.data, annotated |-> TRUE] >>

\* variant: the previous secret is rewritten from the current one on every call
EnsureOverwrites(cur, prev, bootstrap, createOk) ==
  IF cur = <<>> THEN [err |-> TRUE, prev |-> prev, res |-> <<>>]
  ELSE LET p == bootstrapPreviousSecrets(cur[1]) IN
       IF \/ FingerprintFails(Lookup(cur[1].data, secretDataKey))
          \/ FingerprintFails(Lookup(p[1].data, secretDataKey))
       THEN [err |-> TRUE, prev |-> p, res |-> <<>>]
       ELSE [err |-> FALSE, prev |-> p,
             res |-> << [CreatedPrevious |-> TRUE,
                         CurrentFP |-> fingerprintPEMCerts(Lookup(cur[1].data, secretDataKey)),
                         PreviousFP |-> fingerprintPEMCerts(Lookup(p[1].data, secretDataKey)),
                         Diverged |-> FALSE] >>]

\* EnsureTrustSecrets: its error, the previous secret after it, its Result
EnsureTrustSecrets(cur, prev, bootstrap, createOk) ==
  IF cur = <<>> THEN [err |-> TRUE, prev |-> prev, res |-> <<>>]
  ELSE IF prev = <<>> /\ ~(bootstrap /\ createOk)
  THEN [err |-> TRUE, prev |-> prev, res |-> <<>>]
  ELSE LET p == IF prev = <<>> THEN bootstrapPreviousSecrets(cur[1]) ELSE prev IN
       IF \/ FingerprintFails(Lookup(cur[1].data, secretDataKey))
          \/ FingerprintFails(Lookup(p[1].data, secretDataKey))
       THEN [err |-> TRUE, prev |-> p, res |-> <<>>]
       ELSE [err |-> FALSE, prev |-> p,
             res |-> << [CreatedPrevious |-> p[1].annotated,
                         CurrentFP |-> fingerprintPEMCerts(Lookup(cur[1].data, secretDataKey)),
                         PreviousFP |-> fingerprintPEMCerts(Lookup(p[1].data, secretDataKey)),
                         Diverged |-> ~cmpEqual(cur[1].data, p[1].data)] >>]

mainVars == <<workloads, prevSecret, bundleCerts, status, obj, hist, pc, bundleStatus,
              cp, dp, log, result, begin, streak>>

\* one call on any pair of secrets, for a resource with the secrets trigger
SecretsInit ==
  /\ spec \in { c \in SpecConfigs : /\ c.onSecretsDiff /\ ~c.onConfigMapChange
                                     /\ ~c.dryRun /\ ~c.runProxyCheck
                                     /\ c.maxRolloutFailures = 0 /\ c.targets = Targets }
  /\ workloads = Universe
  /\ prevSecret = "same"
  /\ bundleCerts = 1
  /\ status = EmptyStatus
  /\ obj = EmptyStatus
  /\ pc = "idle"
  /\ bundleStatus = ""
  /\ cp = NoCP
  /\ dp = NoDP
  /\ log = <<>>
  /\ result = ""
  /\ begin = NoBegin
  /\ hist = NoHist
  /\ streak = NoStreak
  /\ \E c, q \in SecretChoices : sec = [NoSec EXCEPT !.cur = c, !.prev = q, !.prev0 = q]
  /\ mut = NoMut
  /\ plan = NoPlan
  /\ sts = NoSts
  /\ wait = NoWait

SecEnsure(createOk) ==
  /\ ~sec.called
  /\ LET r == EnsureTrustSecrets(sec.cur, sec.prev, spec.bootstrap, createOk)
     IN sec' = [sec EXCEPT !.prev = r.prev, !.called = TRUE, !.out = <<r>>]
  /\ UNCHANGED <<spec, mainVars, mut, plan, sts, wait>>

SecretsNext == \E createOk \in BOOLEAN : SecEnsure(createOk)

SecretsSpec == SecretsInit /\ [][SecretsNext]_vars

\* ------------------------------------------------ the status mutators
\* Calls of the mutators on one object, as a reconcile makes them: the
\* object is read (Get), then mutators are called on it one after another.
MaxCalls == 2
MaxTotal == 3

SampleRef == << WorkRef([kind |-> KindDeployment, namespace |-> "ns1", name |-> "a"]) >>

Call(name, flag, x, y, s1, s2, ref) ==
  [name |-> name, flag |-> flag, x |-> x, y |-> y, s1 |-> s1, s2 |-> s2, ref |-> ref]

MutatorCalls ==
  { Call("SetPhase", FALSE, 0, 0, ph, "", <<>>) : ph \in {PhaseIdle, PhaseRollingDP} }
  \cup { Call("SetProgressNil", f, 0, 0, "", "", <<>>) : f \in BOOLEAN }
  \cup { Call("SetProgress", TRUE, x, y, "", "", <<>>) :
            x \in (0 - 1)..(MaxTotal + 1), y \in (0 - 1)..MaxTotal }
  \cup { Call("SetTrustInfo", FALSE, 0, 0, bs, "fp", <<>>) :
            bs \in {BundleStateSingle, BundleStateOverlap} }
  \cup { Call("SetPlanHash", FALSE, x, MaxTotal, "", "", r) :
            x \in 0..1, r \in {<<>>, SampleRef} }
  \cup { Call("SetRetry", FALSE, 0, 0, "", "", <<>>),
          Call("SetRetry", FALSE, 1, 0, "err", "", SampleRef) }
  \cup { Call("MarkFailed", FALSE, 0, 0, ReasonRotationFailed, "", <<>>),
          Call("MarkSucceeded", FALSE, 0, 0, "", "", <<>>),
          Call("SetDryRunOutput", FALSE, 0, 0, "", "", <<>>) }

\* the mutate function each mutator hands to Patch, applied to st
MutateOf(c, st) ==
  CASE c.name = "SetPhase" -> SetPhaseOf(st, c.s1, c.s2)
    [] c.name = "SetProgressNil" -> SetProgressNilOf(st, c.flag)
    [] c.name = "SetProgress" -> SetProgressOf(st, c.flag, c.x, c.y)
    [] c.name = "SetTrustInfo" -> SetTrustInfoOf(st, c.s1, c.s2, c.s2)
    [] c.name = "SetPlanHash" -> SetPlanHashOf(st, c.ref, c.x, c.y, <<>>)
    [] c.name = "SetRetry" -> SetRetryOf(st, c.ref, c.x, c.s1)
    [] c.name = "MarkFailed" -> MarkFailedOf(st, c.s1)
    [] c.name = "MarkSucceeded" -> MarkSucceededOf(st)
    [] OTHER -> SetDryRunOutputOf(st, DryRunDump(<<>>))

StatusInit ==
  /\ spec \in { c \in SpecConfigs : /\ c.onSecretsDiff /\ ~c.onConfigMapChange
                                     /\ ~c.dryRun /\ ~c.runProxyCheck /\ ~c.retrigger
                                     /\ c.maxRolloutFailures = 0 /\ c.targets = Targets }
  /\ workloads = Universe
  /\ prevSecret = "same"
  /\ bundleCerts = 1
  /\ status = EmptyStatus
  /\ obj = EmptyStatus
  /\ pc = "idle"
  /\ bundleStatus = ""
  /\ cp = NoCP
  /\ dp = NoDP
  /\ log = <<>>
  /\ result = ""
  /\ begin = NoBegin
  /\ hist = NoHist
  /\ streak = NoStreak
  /\ sec = NoSec
  /\ mut = NoMut
  /\ plan = NoPlan
  /\ sts = NoSts
  /\ wait = NoWait

\* r.Client.Get: the reconcile reads the stored object afresh
MutGet ==
  /\ obj # status \/ mut.last # <<>>
  /\ obj' = status
  /\ mut' = [mut EXCEPT !.last = <<>>, !.prev = <<>>, !.issued = FALSE, !.ok = FALSE,
                        !.prevIssued = FALSE, !.before = <<>>, !.clean = TRUE,
                        !.stale = FALSE, !.onStale = FALSE]
  /\ UNCHANGED <<envVars, status, hist, pc, bundleStatus, cp, dp, log, result, begin,
                 streak, sec, plan, sts, wait>>

\* one mutator call: Patch with its mutate function
MutCall(c, ok) ==
  /\ mut.n < MaxCalls
  /\ Patch(MutateOf(c, obj), ok)
  /\ mut' = [n |-> mut.n + 1, last |-> <<c>>, prev |-> mut.last, before |-> <<status>>,
             issued |-> PatchIssued(MutateOf(c, obj)), ok |-> ok,
             prevIssued |-> mut.issued,
             clean |-> mut.clean /\ ~(mut.issued /\ ~mut.ok),
             stale |-> mut.stale, onStale |-> mut.stale]
  /\ UNCHANGED <<envVars, pc, bundleStatus, cp, dp, log, result, begin, streak, sec, plan, sts, wait>>

StatusNext ==
  \/ MutGet
  \/ \E c \in MutatorCalls, ok \in BOOLEAN : MutCall(c, ok)

StatusSpec == StatusInit /\ [][StatusNext]_vars

\* ---- two reconciles of the same resource
\* Another reconcile reads the resource and patches its status while this
\* one still holds the copy it read earlier. client.MergeFrom(oldObj) puts
\* only the changed fields into the patch, no resourceVersion, so the API
\* server has nothing to reject a patch from an older copy by.
OtherCalls == { c \in MutatorCalls : c.name \in {"SetRetry", "SetPlanHash"} }

MutOther(c) ==
  /\ mut.n < MaxCalls
  /\ LET after == MutateOf(c, status)
         stamped == [after EXCEPT !.lastUpdated = "now"]
     IN /\ ~StatusEqual(status, after)
        /\ status' = MergePatch(status, status, stamped)
  /\ mut' = [mut EXCEPT !.n = @ + 1, !.stale = TRUE]
  /\ UNCHANGED <<envVars, obj, hist, pc, bundleStatus, cp, dp, log, result, begin,
                 streak, sec, plan, sts, wait>>

ConcurrentNext ==
  \/ MutGet
  \/ \E c \in OtherCalls, ok \in BOOLEAN : MutCall(c, ok)
  \/ \E c \in OtherCalls : MutOther(c)

ConcurrentSpec == StatusInit /\ [][ConcurrentNext]_vars

\* ------------------------------------------------ selecting the plan
\* SelectLinkerdDataPlane and planHash on a cluster with several workloads
\* of every kind in two namespaces, selected again after the API returned
\* its lists in another order, after the objects were modified, or after
\* the targets were edited.
MaxNames == 2
MaxRv == 2

PlanNames == { n \in {"a", "d", "k", "s"} : NameRank(n) <= MaxNames }

PlanKinds == <<KindDeployment, KindStatefulSet, KindDaemonSet, KindCR>>

\* the objects of the cluster at resource version rv
PlanObjects(rv) ==
  { [kind |-> PlanKinds[k], namespace |-> ns, name |-> n, inject |-> TRUE, rv |-> rv] :
      k \in 1..Len(PlanKinds), ns \in {"ns1", "ns2"}, n \in PlanNames }

\* the orders of names a list call can return
ListOrders ==
  { p \in [1..Cardinality(PlanNames) -> PlanNames] :
      \A i, j \in 1..Cardinality(PlanNames) : p[i] = p[j] => i = j }

Listed(perm, rv) ==
  Concat([i \in 1..Len(perm) |-> SortByName({ o \in PlanObjects(rv) : o.name = perm[i] })])

PlanScope(kind, nss, strategy, bump) ==
  [kindType |-> kind, allowedNamespaces |-> nss, rolloutStrategy |-> strategy,
   gvk |-> TRUE, annotationBump |-> IF kind = KindCR THEN bump ELSE <<>>]

PlanBumps ==
  { <<>>, <<[key |-> "bump", value |-> "v"]>>, <<[key |-> "bump", value |-> "w"]>>,
    <<[key |-> "", value |-> "v"]>>, <<[key |-> "", value |-> "w"]>> }

\* what a resource can declare: the four kinds in either order, the two
\* namespaces in either order, a strategy for the Deployment and DaemonSet
\* scopes, one for the StatefulSet scope, one for the CustomResource scope,
\* and an annotation bump
PlanChoices ==
  [fwd : BOOLEAN, nss : {<<"ns1", "ns2">>, <<"ns2", "ns1">>},
   sd : {"", Delete}, ss : {"", Delete}, sc : {"", Delete}, bump : PlanBumps]

TargetsOf(c) ==
  [t \in 1..Len(PlanKinds) |->
     LET k == PlanKinds[IF c.fwd THEN t ELSE Len(PlanKinds) + 1 - t]
     IN PlanScope(k, c.nss, CASE k = KindCR -> c.sc [] k = KindStatefulSet -> c.ss
                                 [] OTHER -> c.sd, c.bump)]

\* an edit changes one of the choices
OneEdit(c, d) ==
  Cardinality({ f \in DOMAIN c : c[f] # d[f] }) = 1

PlanInit ==
  /\ spec \in { c \in SpecConfigs : /\ c.onSecretsDiff /\ ~c.onConfigMapChange
                                     /\ ~c.dryRun /\ ~c.runProxyCheck /\ ~c.retrigger
                                     /\ c.maxRolloutFailures = 0 /\ c.targets = Targets }
  /\ workloads = Universe
  /\ prevSecret = "same"
  /\ bundleCerts = 1
  /\ status = EmptyStatus
  /\ obj = EmptyStatus
  /\ pc = "idle"
  /\ bundleStatus = ""
  /\ cp = NoCP
  /\ dp = NoDP
  /\ log = <<>>
  /\ result = ""
  /\ begin = NoBegin
  /\ hist = NoHist
  /\ streak = NoStreak
  /\ sec = NoSec
  /\ mut = NoMut
  /\ sts = NoSts
  /\ wait = NoWait
  /\ \E p \in ListOrders, c \in PlanChoices :
       plan = [perm |-> p, rv |-> 1, choice |-> <<c>>, targets |-> TargetsOf(c),
               queue |-> <<>>, selected |-> FALSE, prev |-> <<>>]

\* SelectLinkerdDataPlane on the lists the API returns now
PlanSelect ==
  /\ ~plan.selected
  /\ plan' = [plan EXCEPT !.queue = SelectLinkerdDataPlane(Listed(plan.perm, plan.rv),
                                                           plan.targets),
                          !.selected = TRUE]
  /\ UNCHANGED <<spec, mainVars, sec, mut, sts, wait>>

Changed == [plan EXCEPT !.prev = <<plan.queue>>, !.selected = FALSE]

\* the next list call returns the objects in another order
PlanRelist(p) ==
  /\ plan.selected /\ plan.prev = <<>>
  /\ p # plan.perm
  /\ plan' = [Changed EXCEPT !.perm = p]
  /\ UNCHANGED <<spec, mainVars, sec, mut, sts, wait>>

\* every object was modified: new resource versions, new snapshots
PlanTouch ==
  /\ plan.selected /\ plan.prev = <<>>
  /\ plan.rv < MaxRv
  /\ plan' = [Changed EXCEPT !.rv = @ + 1]
  /\ UNCHANGED <<spec, mainVars, sec, mut, sts, wait>>

\* the targets of the resource were edited
PlanEdit(c) ==
  /\ plan.selected /\ plan.prev = <<>>
  /\ OneEdit(plan.choice[1], c)
  /\ plan' = [Changed EXCEPT !.choice = <<c>>, !.targets = TargetsOf(c)]
  /\ UNCHANGED <<spec, mainVars, sec, mut, sts, wait>>

PlanNext ==
  \/ PlanSelect
  \/ \E p \in ListOrders : PlanRelist(p)
  \/ PlanTouch
  \/ \E c \in PlanChoices : PlanEdit(c)

PlanSpec == PlanInit /\ [][PlanNext]_vars

\* ------------------------------------------------ reading the log
MaxOf(S) == CHOOSE x \in S : \A y \in S : y <= x

\* where the running data-plane rollout starts in the log
RolloutStart ==
  LET S == { j \in 1..Len(log) : log[j][1] = "dpStart" }
  IN IF S = {} THEN 0 ELSE MaxOf(S)

RolloutPos == (RolloutStart + 1)..Len(log)

RestartPos == { j \in RolloutPos : log[j][1] = "restart" }

\* the item indexes the running rollout has restarted
Restarted == { log[j][2] : j \in RestartPos }

Logged(e) == \E j \in 1..Len(log) : log[j] = e

\* the stored cursor as RestartLinkerdDataPlane found it passes the resume test
ResumeCase ==
  /\ dp.inited
  /\ dp.cursor0 # <<>>
  /\ dp.cursor0[1].planHash = planHash(dp.queue)
  /\ 0 < dp.cursor0[1].next
  /\ dp.cursor0[1].next <= Len(dp.queue)

FreshCase == dp.inited /\ ~ResumeCase

\* in the loop and no item of this rollout has completed yet
BeforeFirstCompletion ==
  /\ pc \in {"dpProgress", "dpRestart", "dpWait", "dpCheck", "dpBumpCursor"}
  /\ dp.processed = dp.start

InitialCursor ==
  << [planHash |-> planHash(dp.queue), next |-> 0, total |-> Len(dp.queue),
      lastDone |-> <<>>] >>

\* C1: when the stored cursor has the hash of the fresh plan and
\* 0 < next <= total, the rollout starts at index cursor.next, restarts no
\* item with a lower index, and leaves the stored cursor as it found it
\* until the first item completes.
C1_ResumeAtCursor ==
  ResumeCase =>
    /\ dp.start = dp.cursor0[1].next
    /\ \A k \in Restarted : k >= dp.cursor0[1].next
    /\ BeforeFirstCompletion => status.cursor = dp.cursor0

C1_Witness ==
  /\ ResumeCase
  /\ pc = "dpWait"
  /\ Restarted = {dp.cursor0[1].next}

\* C2: when the stored cursor is absent, carries another plan's hash, or has
\* next = 0 or next > total, the stored cursor is {hash, 0, total, nil}
\* before any item is restarted and the rollout starts at item 0.
C2_FreshStart ==
  FreshCase =>
    /\ dp.start = 0
    /\ Restarted # {} => 0 \in Restarted
    /\ BeforeFirstCompletion => status.cursor = InitialCursor

C2_Witness ==
  /\ FreshCase
  /\ dp.cursor0 # <<>>
  /\ dp.cursor0[1].next > 0
  /\ dp.cursor0[1].planHash # planHash(dp.queue)
  /\ pc = "dpWait"
  /\ Restarted = {0}

RetryCount(r) == IF r = <<>> THEN 0 ELSE r[1].count

\* recordFailure has written the failure of the item at dp.i
FailureRecorded ==
  /\ dp.failedStep # ""
  /\ dp.recorded
  /\ pc \in {"markFailed", "done"}

\* C3: after a recorded failure of an item (restart, wait, proxy check, or
\* the cursor/progress writes that follow it) the stored cursor is the one
\* the item started with, retries.count is one more, retries.lastFailed is
\* the item, the reconcile returns an error and no later item was restarted.
C3_FailureKeepsCursor ==
  FailureRecorded =>
    /\ status.cursor = dp.itemCursor
    /\ status.retries # <<>>
    /\ status.retries[1].count = RetryCount(dp.itemRetries) + 1
    /\ status.retries[1].lastFailed = <<WorkRef(Item)>>
    /\ \A k \in Restarted : k <= dp.i
    /\ pc = "done" => result = "error"

\* C4: when an item completes, cursor.next goes from i to i + 1, lastDone
\* is the item's reference, planHash and total keep their values and
\* retries is as it was when the item started.
C4_SuccessAdvances ==
  (pc \in {"dpRestart", "dpFinishPhase"} /\ dp.i > dp.start) =>
    /\ dp.itemCursor # <<>>
    /\ dp.itemCursor[1].next = dp.i - 1
    /\ status.cursor =
         << [planHash |-> dp.itemCursor[1].planHash, next |-> dp.itemCursor[1].next + 1,
             total |-> dp.itemCursor[1].total, lastDone |-> <<WorkRef(dp.queue[dp.i])>>] >>
    /\ status.retries = dp.itemRetries

C4_Witness ==
  /\ pc = "dpRestart"
  /\ dp.i = dp.start + 1
  /\ Logged(<<"done", dp.start>>)

\* C5: a stored cursor always has 0 <= next <= total.
C5_CursorInRange ==
  status.cursor # <<>> =>
    (0 <= status.cursor[1].next /\ status.cursor[1].next <= status.cursor[1].total)

C5_Witness ==
  /\ status.cursor # <<>>
  /\ status.cursor[1].total > 0
  /\ status.cursor[1].next = status.cursor[1].total

\* the events a, b, c are logged in this order before position j of the
\* running rollout
InOrderBefore(j, a, b, c) ==
  \E x, y, z \in RolloutPos :
    /\ x < y /\ y < z /\ z < j
    /\ log[x] = a /\ log[y] = b /\ log[z] = c

VerifiedBetween(j, k) ==
  \E y, v, z \in RolloutPos :
    /\ y < v /\ v < z /\ z < j
    /\ log[y] = <<"ready", k>> /\ log[v] = <<"verified", k>> /\ log[z] = <<"done", k>>

\* C6: within a rollout the items are restarted in plan order, one index
\* after the other from the start index; item k is restarted only after
\* item k - 1 was restarted, became ready, passed the proxy check when it is
\* enabled, and the cursor moved past it.
C6_PlanOrder ==
  /\ \A j \in RestartPos :
       LET k == log[j][2] IN
         /\ k = dp.start + Cardinality({ a \in RestartPos : a < j })
         /\ k > dp.start =>
              /\ InOrderBefore(j, <<"restart", k - 1>>, <<"ready", k - 1>>, <<"done", k - 1>>)
              /\ spec.runProxyCheck => VerifiedBetween(j, k - 1)
  /\ pc \in {"dpRestart", "dpWait", "dpCheck"} =>
       (status.cursor # <<>> /\ status.cursor[1].next = dp.i)

C6_Witness ==
  /\ pc = "dpWait"
  /\ spec.runProxyCheck
  /\ dp.start = 0
  /\ Restarted = {0, 1, 2}

\* C7: a data-plane workload is restarted only after the control-plane
\* restart of the same reconcile returned success, every control-plane
\* Deployment patched and rolled out.
C7_ControlPlaneFirst ==
  \A j \in 1..Len(log) :
    log[j][1] = "restart" =>
      \E c \in 1..(j - 1) :
        /\ log[c] = <<"cpDone", 0>>
        /\ \A d \in 1..MaxCP :
             \E a, b \in 1..(c - 1) :
               a < b /\ log[a] = <<"cpPatch", d>> /\ log[b] = <<"cpReady", d>>

C7_Witness ==
  /\ pc = "dpWait"
  /\ Logged(<<"cpDone", 0>>)
  /\ Logged(<<"restart", 0>>)

\* the running rollout has restarted and completed every item from its
\* start index to the end of the plan
AllItemsDone(from, to) ==
  \A k \in dp.start..(Len(dp.queue) - 1) :
    \E x, z \in from..to : x < z /\ log[x] = <<"restart", k>> /\ log[z] = <<"done", k>>

\* C8: the previous-anchor secret is deleted only after the data-plane
\* rollout of the same reconcile returned success; never in a dry run, on
\* the retry-limit path, or after a failure.
C8_DeleteAfterDataPlane ==
  \A j \in 1..Len(log) :
    log[j] = <<"delPrev", 0>> =>
      /\ \E d \in 1..(j - 1) : log[d] = <<"dpDone", 1>>
      /\ ~spec.dryRun
      /\ ~Logged(<<"MaxRetriesExceeded", 0>>)
      /\ dp.failedStep = "" \/ dp.n = 2
      /\ dp.completed >= 1
      /\ dp.n = 1 =>
           /\ AllItemsDone(1, j - 1)
           /\ status.cursor = InitialCursor
           /\ status.retries # <<>> /\ status.retries[1].count = 0

C8_Witness ==
  /\ pc = "markSucceeded"
  /\ dp.n = 1
  /\ dp.queue # <<>>
  /\ Logged(<<"delPrev", 0>>)
  /\ prevSecret = "absent"

\* the stored retries exceeded the limit when the reconcile started
Exceeded ==
  begin.retries # <<>> /\ begin.retries[1].count > spec.maxRolloutFailures

\* C9: with an overlap detected, dry run off and retries.count above
\* maxRolloutFailures, the reconcile takes the retry-limit branch: it emits
\* MaxRetriesExceeded and does nothing else in the cluster, leaves cursor and
\* retries as they were, and, its status write accepted, ends with phase
\* Failed, reason ReasonMaxRetriesExceeded and a requeue after one minute.
\* The branch is taken in no other case.
C9_RetryLimit ==
  /\ pc = "maxRetries" =>
       (Exceeded /\ bundleStatus = BundleStateOverlap /\ ~spec.dryRun /\ log = <<>>)
  /\ ( /\ bundleStatus = BundleStateOverlap
       /\ \E j \in 1..Len(log) : log[j][1] # "MaxRetriesExceeded" ) => ~Exceeded
  /\ pc = "setDetecting" => ~Exceeded
  /\ Logged(<<"MaxRetriesExceeded", 0>>) =>
       /\ pc = "done"
       /\ log = << <<"MaxRetriesExceeded", 0>> >>
       /\ status.cursor = begin.cursor
       /\ status.retries = begin.retries
       /\ \/ /\ result = "requeue1m"
             /\ status.phase = PhaseFailed
             /\ status.reason = ReasonMaxRetriesExceeded
          \/ result = "error"
  /\ ( /\ pc = "done" /\ result # "error"
       /\ bundleStatus = BundleStateOverlap /\ ~spec.dryRun /\ Exceeded )
     => Logged(<<"MaxRetriesExceeded", 0>>)

C9_Witness ==
  /\ pc = "done"
  /\ result = "requeue1m"
  /\ Exceeded
  /\ begin.cursor # <<>>
  /\ Logged(<<"MaxRetriesExceeded", 0>>)

\* the reconcile that just ended is the third in a row to fail on the same
\* item, retries.count having been 0 before the first, with limit 2
ThirdFailure ==
  /\ pc = "done"
  /\ spec.maxRolloutFailures = 2
  /\ streak.n = 2
  /\ FailedItemNow = streak.item

\* C10 as stated: limit 2, three reconciles in a row fail on the same item;
\* after the third the phase is Failed with ReasonMaxRetriesExceeded, the
\* MaxRetriesExceeded event is emitted and the requeue is one minute.
C10_ThirdFailureHitsLimit ==
  ThirdFailure =>
    /\ status.phase = PhaseFailed
    /\ status.reason = ReasonMaxRetriesExceeded
    /\ Logged(<<"MaxRetriesExceeded", 0>>)
    /\ result = "requeue1m"

\* C10: limit 2, three reconciles in a row fail on the same item: the
\* third still runs the rollout (count 2 is not above 2), returns its error
\* without the event, leaves retries.count = 3 and a Failed phase with
\* ReasonRotationFailed; the reconcile after it, when it detects the
\* overlap, is the one that emits MaxRetriesExceeded, sets Failed with
\* ReasonMaxRetriesExceeded and requeues after one minute.
C10_LimitOnFourthReconcile ==
  /\ ThirdFailure =>
       /\ result = "error"
       /\ ~Logged(<<"MaxRetriesExceeded", 0>>)
       /\ Logged(<<"restart", dp.i>>) \/ dp.failedStep = "restart"
       /\ status.retries # <<>> /\ status.retries[1].count = 3
       /\ status.phase = PhaseFailed => status.reason = ReasonRotationFailed
       /\ MaxRetriesReached(status, spec)
  /\ ( /\ pc = "done" /\ spec.maxRolloutFailures = 2 /\ streak.n = 3
       /\ bundleStatus = BundleStateOverlap /\ ~spec.dryRun /\ result # "error" )
     => /\ Logged(<<"MaxRetriesExceeded", 0>>)
        /\ status.phase = PhaseFailed
        /\ status.reason = ReasonMaxRetriesExceeded
        /\ result = "requeue1m"

C10_Witness ==
  /\ ThirdFailure
  /\ status.phase = PhaseFailed
  /\ status.reason = ReasonRotationFailed
  /\ status.retries[1].count = 3

\* the stored retries after SetRetry(nil, 0, "")
ClearedRetries ==
  << [count |-> 0, lastError |-> "", lastFailed |-> <<>>, lastErrorTime |-> "nil"] >>

\* RestartLinkerdDataPlane has just returned nil
JustCompleted == log # <<>> /\ log[Len(log)][1] = "dpDone"

\* C11: when a data-plane rollout runs to completion (also on a resume with
\* cursor.next = total and with an empty plan), the stored retries are count
\* 0, empty lastError, no lastFailed, and the stored cursor is
\* {planHash, 0, total, nil}.
C11_CompletionResets ==
  JustCompleted =>
    /\ status.retries = ClearedRetries
    /\ status.cursor = InitialCursor

C11_Witness ==
  /\ JustCompleted
  /\ dp.resumed
  /\ dp.start = Len(dp.queue)
  /\ begin.retries # <<>>
  /\ begin.retries[1].count > 0

C11_EmptyPlanCompletes == JustCompleted /\ dp.queue = <<>>

\* ------------------------------------------------- the healthy cluster
\* Every API call succeeds, every restarted workload becomes ready in time
\* and every verification job completes; the only errors left are the ones
\* the code raises itself.
HealthyNext ==
  \/ \E o \in Togglable : EnvToggleWorkload(o)
  \/ \E v \in {"absent", "same", "differs"} : EnvSecrets(v)
  \/ \E k \in 1..MaxCerts : EnvBundle(k)
  \/ StartReconcile
  \/ SetPhaseIdle(TRUE)
  \/ SetProgressIdle(TRUE)
  \/ Detect(TRUE, TRUE)
  \/ DryRun(TRUE, TRUE)
  \/ MaxRetries(TRUE)
  \/ SetPhaseDetecting(TRUE)
  \/ WaitBeforeRollout(TRUE)
  \/ DeleteIssuerSecret(TRUE)
  \/ CPSelect(TRUE)
  \/ CPSetPhase(TRUE)
  \/ CPSetProgressFalse(TRUE)
  \/ CPBump(TRUE)
  \/ CPWait(TRUE)
  \/ CPSetProgressTrue(TRUE)
  \/ CPSetPhaseReady(TRUE)
  \/ MarkFailed(TRUE)
  \/ DPSelect(TRUE)
  \/ DPSetPhase(TRUE)
  \/ DPInitCursor(TRUE)
  \/ DPSetProgress(TRUE)
  \/ DPApplyRestart(~BumpMissing(Item))
  \/ DPWait(TRUE)
  \/ DPProxyCheck(TRUE)
  \/ DPBumpCursor(TRUE)
  \/ DPBumpProgress(TRUE)
  \/ DPRecordFailure(TRUE)
  \/ DPFinishPhase(TRUE)
  \/ DPClearRetry(TRUE)
  \/ DPResetCursor(TRUE)
  \/ DeletePreviousSecret(TRUE)
  \/ WaitHold(TRUE)
  \/ EnsureAgain(TRUE)
  \/ MarkSucceeded(TRUE)
  \/ Return

\* ------------------------------------------ restartStatefulSetByDelete
\* One call on a StatefulSet with up to MaxPods pods, and possibly a pod
\* that matches the selector without carrying an ordinal.
MaxPods == 3

\* a pod name NAME-<suffix>
PodName(o) == [base |-> "s", suffix |-> o, numeric |-> TRUE]
StrayName == [base |-> "s", suffix |-> 0, numeric |-> FALSE]

\* podOrdinal: the number after the last '-', -1 when there is none
podOrdinal(name) == IF name.numeric THEN name.suffix ELSE 0 - 1

RunningPod(name) ==
  [name |-> name, exists |-> TRUE, phase |-> "Running", ready |-> TRUE, deleting |-> FALSE]

\* variant: a terminating pod counts as ready
podReadyAgainIgnoresDeletion(p) == p.phase = "Running" /\ p.ready

\* deletePodAndWaitSameNameReady's test of the pod it read:
\* no DeletionTimestamp, phase Running, condition Ready true
podReadyAgain(p) == ~p.deleting /\ p.phase = "Running" /\ p.ready

\* sort.Slice by descending podOrdinal
RECURSIVE SortDescendingOrdinal(_)
SortDescendingOrdinal(l) ==
  IF l = <<>> THEN <<>>
  ELSE LET rest == SortDescendingOrdinal(Tail(l))
           before == SelectSeq(rest, LAMBDA n : podOrdinal(n) > podOrdinal(Head(l)))
           after == SelectSeq(rest, LAMBDA n : ~(podOrdinal(n) > podOrdinal(Head(l))))
       IN before \o <<Head(l)>> \o after

\* the pod lists the API can return for the StatefulSet: its pods in any order
PodLists ==
  UNION { { l \in [1..Cardinality(S) -> S] : \A i, j \in 1..Cardinality(S) : l[i] = l[j] => i = j } :
            S \in { { PodName(o) : o \in 0..(n - 1) } \cup X :
                      n \in 0..MaxPods, X \in {{}, {StrayName}} } }

StsInit ==
  /\ spec \in { c \in SpecConfigs : /\ c.onSecretsDiff /\ ~c.onConfigMapChange
                                     /\ ~c.dryRun /\ ~c.runProxyCheck /\ ~c.retrigger
                                     /\ c.maxRolloutFailures = 0 /\ c.targets = Targets }
  /\ workloads = Universe
  /\ prevSecret = "same"
  /\ bundleCerts = 1
  /\ status = EmptyStatus
  /\ obj = EmptyStatus
  /\ pc = "idle"
  /\ bundleStatus = ""
  /\ cp = NoCP
  /\ dp = NoDP
  /\ log = <<>>
  /\ result = ""
  /\ begin = NoBegin
  /\ hist = NoHist
  /\ streak = NoStreak
  /\ sec = NoSec
  /\ mut = NoMut
  /\ wait = NoWait
  /\ plan = NoPlan
  /\ \E l \in PodLists :
       sts = [pc |-> "list", pods |-> [j \in 1..Len(l) |-> RunningPod(l[j])], listed |-> l,
              order |-> <<>>, i |-> 0, deleted |-> <<>>, seen |-> <<>>]

StsUnchanged == UNCHANGED <<spec, mainVars, sec, mut, plan, wait>>

\* the index in sts.pods of the pod named name
PodIndex(name) == CHOOSE j \in 1..Len(sts.pods) : sts.pods[j].name = name

\* m.Client.List of the pods, then the sort; no pods: nothing to do
StsList(ok) ==
  /\ sts.pc = "list"
  /\ sts' = IF ~ok THEN [sts EXCEPT !.pc = "failed"]
            ELSE IF sts.listed = <<>> THEN [sts EXCEPT !.pc = "done"]
            ELSE [sts EXCEPT !.pc = "delete", !.order = SortDescendingOrdinal(sts.listed),
                             !.i = 1]
  /\ StsUnchanged

\* m.Client.Delete of the next pod: the pod gets a deletion timestamp and
\* keeps running through its grace period; a pod that is gone already
\* (NotFound) is waited for like a deleted one
StsDelete(ok) ==
  /\ sts.pc = "delete"
  /\ LET j == PodIndex(sts.order[sts.i]) IN
     sts' = IF ~ok THEN [sts EXCEPT !.pc = "failed"]
            ELSE [sts EXCEPT !.pc = "wait",
                             !.pods[j].deleting = sts.pods[j].exists,
                             !.deleted = Append(@, sts.order[sts.i])]
  /\ StsUnchanged

\* the kubelet and the StatefulSet controller: a terminating pod goes away,
\* a missing pod is created again under the same name, a pending pod starts
\* running, a running pod becomes ready
PodStep(j) ==
  /\ sts.pc = "wait"
  /\ j \in 1..Len(sts.pods)
  /\ \/ /\ sts.pods[j].exists /\ sts.pods[j].deleting
        /\ sts' = [sts EXCEPT !.pods[j].exists = FALSE, !.pods[j].deleting = FALSE,
                              !.pods[j].ready = FALSE, !.pods[j].phase = "Pending"]
     \/ /\ ~sts.pods[j].exists
        /\ sts' = [sts EXCEPT !.pods[j].exists = TRUE]
     \/ /\ sts.pods[j].exists /\ ~sts.pods[j].deleting /\ sts.pods[j].phase = "Pending"
        /\ sts' = [sts EXCEPT !.pods[j].phase = "Running"]
     \/ /\ sts.pods[j].exists /\ ~sts.pods[j].deleting /\ sts.pods[j].phase = "Running"
        /\ ~sts.pods[j].ready
        /\ sts' = [sts EXCEPT !.pods[j].ready = TRUE]
  /\ StsUnchanged

\* one poll of the wait loop: Get the pod by name; NotFound and a pod that
\* is not ready again keep the loop polling, another error ends it
StsPoll(ok) ==
  /\ sts.pc = "wait"
  /\ LET p == sts.pods[PodIndex(sts.order[sts.i])] IN
     sts' = IF ~ok THEN [sts EXCEPT !.pc = "failed"]
            ELSE IF p.exists /\ podReadyAgain(p)
            THEN [sts EXCEPT !.seen = Append(@, p),
                             !.pc = IF sts.i < Len(sts.order) THEN "delete" ELSE "done",
                             !.i = IF sts.i < Len(sts.order) THEN @ + 1 ELSE @]
            ELSE sts
  /\ sts' # sts
  /\ StsUnchanged

\* the per-pod deadline passes (or the context is cancelled)
StsTimeout ==
  /\ sts.pc = "wait"
  /\ sts' = [sts EXCEPT !.pc = "timeout"]
  /\ StsUnchanged

StsNext ==
  \/ \E ok \in BOOLEAN : StsList(ok)
  \/ \E ok \in BOOLEAN : StsDelete(ok)
  \/ \E j \in 1..(MaxPods + 1) : PodStep(j)
  \/ \E ok \in BOOLEAN : StsPoll(ok)
  \/ StsTimeout

StsSpec == StsInit /\ [][StsNext]_vars

\* ---- a cancelled context
\* The manager cancels the context of a running reconcile (shutdown, lost
\* leadership): the wait the reconcile is in returns ctx.Err().  The calls
\* the reconcile makes afterwards carry the cancelled context, and the
\* client fails them.
DelayCancelled ==
  /\ pc = "beforeDelay" /\ spec.beforeRolloutDelay
  /\ log' = Append(log, <<"cancelled", 0>>)
  /\ Finish("error")
  /\ UNCHANGED <<envVars, status, obj, hist, bundleStatus, cp, dp, begin, streak, sec, mut, plan, sts, wait>>

HoldCancelled ==
  /\ pc = "hold" /\ spec.holdAfterCleanup
  /\ log' = Append(log, <<"cancelled", 0>>)
  /\ Finish("error")
  /\ UNCHANGED <<envVars, status, obj, hist, bundleStatus, cp, dp, begin, streak, sec, mut, plan, sts, wait>>

\* waitDeploymentRolledOut of a control-plane Deployment
CPWaitCancelled ==
  /\ pc = "cpWait"
  /\ log' = Append(log, <<"cancelled", 0>>)
  /\ pc' = AfterControlPlane(TRUE)
  /\ UNCHANGED <<envVars, status, obj, hist, bundleStatus, cp, dp, result, begin, streak, sec, mut, plan, sts, wait>>

\* the per-kind wait of a data-plane item (rollout or pod recreation)
DPWaitCancelled ==
  /\ pc = "dpWait"
  /\ log' = Append(log, <<"cancelled", 0>>)
  /\ pc' = "dpRecordFailure"
  /\ dp' = [dp EXCEPT !.failedStep = "wait"]
  /\ UNCHANGED <<envVars, status, obj, hist, bundleStatus, cp, result, begin, streak, sec, mut, plan, sts, wait>>

\* the wait for the verification job
DPProxyCheckCancelled ==
  /\ pc = "dpCheck" /\ spec.runProxyCheck
  /\ log' = Append(log, <<"cancelled", 0>>)
  /\ pc' = "dpRecordFailure"
  /\ dp' = [dp EXCEPT !.failedStep = "check"]
  /\ UNCHANGED <<envVars, status, obj, hist, bundleStatus, cp, result, begin, streak, sec, mut, plan, sts, wait>>

CancelNext ==
  \/ ~Cancelled /\ HealthyNext
  \/ DelayCancelled
  \/ HoldCancelled
  \/ CPWaitCancelled
  \/ DPWaitCancelled
  \/ DPProxyCheckCancelled
  \/ Cancelled /\ DPRecordFailure(FALSE)
  \/ Cancelled /\ MarkFailed(FALSE)
  \/ Cancelled /\ Return

CancelSpec == Init /\ [][CancelNext]_vars

\* the controller and the cluster keep taking steps
HealthySpec == Init /\ [][HealthyNext]_vars /\ WF_vars(HealthyNext)

\* the resource's targets raise no configuration error
ValidTargets ==
  /\ ~SelectFails(spec.targets)
  /\ \A t \in 1..Len(spec.targets) :
       spec.targets[t].kindType = KindCR => spec.targets[t].annotationBump # <<>>

\* the reconcile has deleted the previous secret and ended with Succeeded
RotationSucceeded ==
  /\ pc = "done"
  /\ status.phase = PhaseSucceeded
  /\ Logged(<<"delPrev", 0>>)

\* C12: in a healthy cluster, for every configuration, a reconcile that
\* detects the overlap with dry run off and retries within the limit deletes
\* the previous-anchor secret and ends with phase Succeeded.
C12_HealthyRotationSucceeds ==
  (pc = "setDetecting" /\ ValidTargets) ~> RotationSucceeded

\* C12 on the reconcile's end: in a healthy cluster, for every configuration,
\* the reconcile that started the rotation returns only with the previous
\* secret deleted and the phase Succeeded.
C12_HealthyReconcileSucceeds ==
  (pc = "done" /\ Logged(<<"delIssuer", 0>>) /\ ValidTargets) => RotationSucceeded

\* the same, leaving out retrigger with bootstrap disabled
C12_HealthyWithBootstrap ==
  (pc = "setDetecting" /\ ValidTargets /\ (spec.retrigger => spec.bootstrap))
    ~> RotationSucceeded

\* a healthy rotation ends nowhere else
C12_HealthyEndsSucceeded ==
  ( /\ pc = "done" /\ Logged(<<"delIssuer", 0>>)
    /\ ValidTargets /\ (spec.retrigger => spec.bootstrap) )
  => RotationSucceeded

\* the stored phases of the running reconcile from its Idle on: the first
\* write is SetPhase(Idle), which is skipped when the phase is Idle already
PhaseTrail ==
  IF hist.phases # <<>> /\ hist.phases[1] = PhaseIdle THEN hist.phases
  ELSE <<PhaseIdle>> \o hist.phases

\* a rotation that ran to MarkSucceeded and the requeue
FullSuccess ==
  /\ pc = "done"
  /\ result = "requeue10s"
  /\ Logged(<<"delPrev", 0>>)

FinalStatusAfterSuccess ==
  /\ status.cursor # <<>>
  /\ status.cursor[1].next = 0
  /\ status.cursor[1].total = Len(dp.queue)
  /\ status.retries = ClearedRetries

PhaseCleanup == "Cleanup"

\* C13 as stated: in a fully successful rotation the stored phase goes
\* through Idle, Detecting, RollingCP, RollingDP, Cleanup, Succeeded, and the
\* final status has dataPlanePercent 100, cursor.next 0, cursor.total the
\* plan length, retries cleared.
C13_PhasesWithCleanup ==
  FullSuccess =>
    /\ PhaseTrail = <<PhaseIdle, PhaseDetecting, PhaseRollingCP, PhaseRollingDP,
                      PhaseCleanup, PhaseSucceeded>>
    /\ status.progress # <<>> /\ status.progress[1].dataPlanePercent = 100
    /\ FinalStatusAfterSuccess

\* what the rotation does: no Cleanup phase, the previous secret is deleted
\* in phase RollingDP; 100 percent for a plan that is not empty
C13_PhasesAsWritten ==
  /\ pc \in {"setProgress", "detect"} => status.phase = PhaseIdle
  /\ FullSuccess =>
       /\ PhaseTrail = <<PhaseIdle, PhaseDetecting, PhaseRollingCP, PhaseRollingDP,
                         PhaseSucceeded>>
       /\ status.progress # <<>>
       /\ status.progress[1].dataPlanePercent = IF dp.queue = <<>> THEN 0 ELSE 100
       /\ FinalStatusAfterSuccess
  /\ pc \in {"delPrev", "hold", "ensureAgain"} => status.phase = PhaseRollingDP

\* ---------------------------------------------------------------- C14
\* the reconcile that has just returned started right after a completed
\* rotation, nothing in the cluster having changed in between
SecondReconcileDone == pc = "done" /\ begin.afterSuccess

\* C14: after a full successful rotation, an immediately following reconcile
\* (cluster otherwise unchanged) leaves phase = Succeeded, writes no status,
\* deletes and creates no secret, restarts no workload, and only requeues.
C14_SecondReconcileIdle ==
  SecondReconcileDone =>
    /\ status.phase = PhaseSucceeded
    /\ ~hist.wrote
    /\ log = <<>>
    /\ result = "requeue10s"

\* what the code does instead, every call succeeding: the reconcile always
\* rewrites the status (phase Idle first); with the secrets trigger it fails
\* on the deleted previous secret or creates it again, with the bundle trigger
\* alone the unchanged overlap starts the whole rotation again
C14_SecondReconcileAsWritten ==
  SecondReconcileDone =>
    /\ hist.wrote
    /\ hist.phases # <<>> /\ hist.phases[1] = PhaseIdle
    /\ spec.onSecretsDiff /\ ~spec.retrigger => result = "error" /\ status.phase = PhaseIdle
    /\ spec.onSecretsDiff /\ spec.retrigger =>
          result = "requeue10s" /\ status.phase = PhaseIdle /\ log = <<>>
    /\ ~spec.onSecretsDiff => RotationCompleted /\ Restarted # {}

\* ---------------------------------------------------------------- C15
\* the reconcile took the dry-run branch and returned without an error
DryRunDone == pc = "done" /\ spec.dryRun /\ bundleStatus = BundleStateOverlap

\* C15: with spec.dryRun true and an overlap detected the reconcile changes
\* nothing in the cluster (no workload patched, no pod or secret deleted, no
\* secret or job created) and leaves cursor and retries as they were; its
\* reads and its status write succeeding, it ends with phase DryRun, reason
\* DryRunCompleted, progress cleared and the plan dump stored, whatever the
\* retry count.
C15_DryRunChangesNothing ==
  /\ (spec.dryRun /\ bundleStatus = BundleStateOverlap) =>
        /\ log = <<>>
        /\ status.cursor = begin.cursor
        /\ status.retries = begin.retries
        /\ pc \in {"dryRun", "done"}
  /\ (DryRunDone /\ result # "error") =>
        /\ result = "none"
        /\ status.phase = PhaseDryRun
        /\ status.reason = ReasonDryRun
        /\ status.progress = <<>>
        /\ status.dryRunPlan = DryRunDump(SelectLinkerdDataPlane(KeyOrder(workloads), spec.targets))

\* a dry run completed although the stored retry count is above the limit
C15_Witness ==
  /\ DryRunDone
  /\ result = "none"
  /\ Exceeded
  /\ status.dryRunPlan # <<>>

\* ---------------------------------------------------------------- C16
SecretsOnly == spec.onSecretsDiff /\ ~spec.onConfigMapChange
BundleOnly == spec.onConfigMapChange /\ ~spec.onSecretsDiff
BothTriggers == spec.onSecretsDiff /\ spec.onConfigMapChange
NoTrigger == ~spec.onSecretsDiff /\ ~spec.onConfigMapChange

\* the decision the claim states, on the cluster as it is
ShouldRotate ==
  \/ SecretsOnly /\ prevSecret = "differs"
  \/ BundleOnly /\ bundleCerts >= 2
  \/ BothTriggers /\ prevSecret = "differs" /\ bundleCerts >= 2

\* the reconcile is just past the trigger switch, in the overlap branch
RotationStarted == pc \in {"dryRun", "maxRetries", "setDetecting"}

\* the reconcile returned without entering the overlap branch
RotationNotStarted == pc = "done" /\ bundleStatus # BundleStateOverlap

NothingDeletedOrRestarted ==
  \A j \in 1..Len(log) : log[j][1] = "createPrev"

RotatesAsWritten ==
  \/ SecretsOnly /\ prevSecret = "differs"
  \/ BundleOnly /\ bundleCerts = 2
  \/ BothTriggers /\ prevSecret = "differs" /\ bundleCerts >= 2

NoTriggerError == pc = "done" /\ NoTrigger /\ result = "error"

SelectError ==
  /\ pc = "done" /\ result = "error"
  /\ SelectFails(spec.targets)
  /\ dp.n >= 1 \/ (spec.dryRun /\ bundleStatus = BundleStateOverlap)

BumpKeyError ==
  /\ pc = "done" /\ result = "error"
  /\ dp.failedStep = "restart"
  /\ BumpMissing(Item)

C17_ConfigErrorsAsWritten ==
  /\ (SelectError \/ BumpKeyError) /\ ~spec.dryRun =>
        status.phase = PhaseFailed /\ status.reason = ReasonRotationFailed
  /\ NoTriggerError =>
        /\ status.phase = PhaseIdle /\ status.reason = ""
        /\ PhaseFailed \notin { hist.phases[j] : j \in 1..Len(hist.phases) }
        /\ log = <<>>

\* ---------------------------------------------------------------- C18
\* the bundle state stored by the API server
StoredBundleState == IF status.trust = <<>> THEN "" ELSE status.trust[1].bundleState

\* the reconcile of a bundle-only resource has returned
BundleOnlyDone == pc = "done" /\ BundleOnly

Ensured == sec.out[1]

PreviousCreated == sec.called /\ sec.prev0 = <<>> /\ sec.prev # <<>>

\* C19: EnsureTrustSecrets never overwrites an existing previous secret; it
\* creates one, a copy of the current secret's data annotated created=true,
\* only when none was found and bootstrap is on; with the previous secret
\* missing and bootstrap off, or with the current secret missing, it fails
\* and creates nothing.
C19_NeverOverwrites ==
  sec.called =>
    /\ sec.prev0 # <<>> => sec.prev = sec.prev0
    /\ sec.prev # sec.prev0 =>
          /\ PreviousCreated
          /\ spec.bootstrap
          /\ sec.cur # <<>>
          /\ sec.prev[1].data = sec.cur[1].data
          /\ sec.prev[1].annotated
    /\ ((sec.prev0 = <<>> /\ ~spec.bootstrap) \/ sec.cur = <<>>) =>
          Ensured.err /\ sec.prev = sec.prev0

C19_Witness ==
  /\ PreviousCreated
  /\ ~Ensured.err
  /\ Ensured.res[1].CreatedPrevious

\* an existing previous secret that differs from the current one was kept
C19_ExistingKept ==
  /\ sec.called
  /\ sec.prev0 # <<>> /\ sec.cur # <<>>
  /\ sec.prev0[1].data # sec.cur[1].data
  /\ sec.prev = sec.prev0

\* ---------------------------------------------------------------- C20
\* identical data maps, nil and empty taken as equal
SameData(a, b) == (a.m = {} /\ b.m = {}) \/ a = b

\* both secrets are there when the call compares them
BothPresent == sec.called /\ sec.cur # <<>> /\ sec.prev # <<>>

C20_EmptyMapsFail ==
  /\ BothPresent
  /\ sec.cur[1].data.m = {} /\ sec.prev[1].data.m = {}
  /\ sec.cur[1].data # sec.prev[1].data
  /\ Ensured.err

\* ---------------------------------------------------------------- C21
\* a mutator has been called on an object no rejected patch has left ahead
\* of the stored one
Called == mut.last # <<>> /\ mut.clean

\* the API server accepted the call's patch, which carries lastUpdated = now
Stamped == mut.issued /\ mut.ok

\* the call stores a time it read from the clock (completionTime or
\* lastErrorTime): that stored field changes even when it held a time before
StoresFreshTime ==
  \/ mut.last[1].name \in {"MarkFailed", "MarkSucceeded"}
  \/ mut.last[1].name = "SetRetry" /\ mut.last[1].x > 0 /\ mut.last[1].s1 # ""

OtherFieldChanged == ~StatusEqual(mut.before[1], status) \/ (Stamped /\ StoresFreshTime)

\* C21: for every mutator call the stored lastUpdated changes iff a stored
\* field other than lastUpdated changed: no patch and no new lastUpdated when
\* the other fields stay equal, lastUpdated stamped whenever a patch is issued.
C21_LastUpdatedIffChanged ==
  Called =>
    /\ Stamped <=> OtherFieldChanged
    /\ ~mut.issued => status = mut.before[1]
    /\ Stamped => status.lastUpdated = "set"
\* SetRetry with a zero count or an empty error hands Patch a pointer to the
\* zero time, which differs from the nil pointer read back from the store
ZeroTimeRetry ==
  mut.last[1].name = "SetRetry" /\ (mut.last[1].x <= 0 \/ mut.last[1].s1 = "")

\* C21 as the code behaves: lastUpdated is stamped without any other stored
\* change only by a SetRetry that clears the counters; every other stamped
\* call changes a stored field, and every stored change is stamped
C21_LastUpdatedAsWritten ==
  Called =>
    /\ OtherFieldChanged => Stamped
    /\ Stamped /\ ~ZeroTimeRetry => OtherFieldChanged
    /\ ~mut.issued => status = mut.before[1]
    /\ Stamped => status.lastUpdated = "set"

C21_StampedWithoutChange == Called /\ Stamped /\ ZeroTimeRetry /\ ~OtherFieldChanged

\* ---- C22
IdempotentMutators == {"SetPhase", "SetProgress", "SetProgressNil", "SetTrustInfo",
                       "SetPlanHash", "SetRetry"}

\* the same mutator was called twice in succession with the same arguments
\* on the same object
Twice ==
  /\ mut.last # <<>>
  /\ mut.prev = mut.last
  /\ mut.last[1].name \in IdempotentMutators

\* C22: a mutator called twice in succession with the same arguments issues
\* no patch the second time and leaves the stored status alone, SetRetry
\* with a positive count and an error included
C22_MutatorsIdempotent ==
  Twice => ~mut.issued /\ status = mut.before[1]

\* C22 as the code behaves: the second call writes nothing unless it is a
\* SetRetry with a positive count and an error, which reads the clock again
\* and issues a second patch carrying the new lastErrorTime
C22_IdempotentButErrorTime ==
  Twice => IF StoresFreshTime THEN mut.issued
           ELSE ~mut.issued /\ status = mut.before[1]

C22_Witness ==
  /\ Twice /\ ~StoresFreshTime
  /\ mut.prevIssued /\ mut.clean /\ ~mut.issued
  /\ mut.last[1].name = "SetRetry"

\* ---- C25
\* the integer nearest to 100 * next / total (halves upwards), with next
\* taken as 0 when negative and as total when larger
RoundedPercent(next, total) ==
  LET n == IF next < 0 THEN 0 ELSE IF next > total THEN total ELSE next
  IN CHOOSE p \in 0..100 : 2 * p * total <= 200 * n + total
                            /\ 200 * n + total < 2 * (p + 1) * total

ExpectedPercent(c) ==
  IF c.name = "SetProgressNil" \/ c.y <= 0 THEN 0 ELSE RoundedPercent(c.x, c.y)

ProgressSet ==
  /\ Called
  /\ mut.last[1].name \in {"SetProgress", "SetProgressNil"}
  /\ mut.issued => mut.ok

\* C25: after SetProgress(cpReady, next, total) the stored dataPlanePercent
\* is round(100 * next / total) within 0..100; 0 when total <= 0 or when
\* next and total are not supplied; 100 when next >= total > 0; the same as
\* for next = 0 when next is negative
C25_PercentRoundedAndClamped ==
  ProgressSet =>
    LET c == mut.last[1]
        p == status.progress[1].dataPlanePercent
    IN /\ status.progress # <<>>
       /\ status.progress[1].controlPlaneReady = c.flag
       /\ p \in 0..100
       /\ p = ExpectedPercent(c)
       /\ (c.name = "SetProgressNil" \/ c.y <= 0) => p = 0
       /\ (c.name = "SetProgress" /\ c.y > 0 /\ c.x >= c.y) => p = 100
       /\ (c.name = "SetProgress" /\ c.x < 0) => p = 0

\* a stored percentage that is neither 0 nor 100: 2 of 3 items done
C25_Witness ==
  /\ ProgressSet /\ mut.issued
  /\ mut.last[1].x = 2 /\ mut.last[1].y = 3
  /\ status.progress[1].dataPlanePercent = 67

C25_WitnessOverrun ==
  /\ ProgressSet /\ mut.issued
  /\ mut.last[1].x > mut.last[1].y /\ mut.last[1].y > 0
  /\ status.progress[1].dataPlanePercent = 100

\* ---- C28
\* the call was made on a copy read before another reconcile's write, and
\* it sent a patch
StalePatch == mut.last # <<>> /\ mut.onStale /\ mut.issued

\* C28: a status patch computed from a stale copy of the resource is
\* rejected: it leaves the stored status as the other reconcile wrote it
C28_StalePatchRejected ==
  StalePatch => status = mut.before[1]

\* both reconciles recorded the first failure from the same base: the stored
\* count is 1 after two recorded failures
C28_BothAdvanced ==
  /\ StalePatch /\ mut.ok
  /\ mut.last[1].name = "SetRetry" /\ mut.last[1].x = 1
  /\ mut.before[1].retries # <<>> /\ mut.before[1].retries[1].count = 1
  /\ status.retries[1].count = 1

\* ---- C23
ScopeIndex(w) == CHOOSE t \in 1..Len(plan.targets) : plan.targets[t].kindType = w.kind

NamespaceIndex(w) ==
  CHOOSE n \in 1..Len(plan.targets[ScopeIndex(w)].allowedNamespaces) :
    plan.targets[ScopeIndex(w)].allowedNamespaces[n] = w.namespace

\* position of the item's name in the order the API returned
ListIndex(w) == CHOOSE i \in 1..Len(plan.perm) : plan.perm[i] = w.name

\* a comes before b by scope, then namespace, then the rank r within the list
Precedes(a, b, r(_)) ==
  \/ ScopeIndex(a) < ScopeIndex(b)
  \/ ScopeIndex(a) = ScopeIndex(b) /\ NamespaceIndex(a) < NamespaceIndex(b)
  \/ /\ ScopeIndex(a) = ScopeIndex(b) /\ NamespaceIndex(a) = NamespaceIndex(b)
     /\ r(a) < r(b)

NameOf(w) == NameRank(w.name)

\* ascending name for StatefulSets, the order of the list for the others
WalkRank(w) == IF w.kind = KindStatefulSet THEN NameRank(w.name) ELSE ListIndex(w)

\* C23: the plan is ordered by scope in declaration order, then namespace in
\* declaration order, then ascending name, for items of every kind and
\* whatever order the API returned the lists in
C23_PlanOrderedByName ==
  plan.selected =>
    \A i, j \in 1..Len(plan.queue) :
       i < j => Precedes(plan.queue[i], plan.queue[j], NameOf)

\* C23 as the code behaves: scopes and namespaces are in declaration order;
\* within one list only StatefulSets are in name order, the other kinds are
\* in the order of the list
C23_PlanOrderAsWritten ==
  plan.selected =>
    /\ Len(plan.queue) = Cardinality(PlanObjects(plan.rv))
    /\ \A i, j \in 1..Len(plan.queue) :
         i < j => Precedes(plan.queue[i], plan.queue[j], WalkRank)

\* two Deployments of one namespace planned in descending name order
C23_OutOfNameOrder ==
  /\ plan.selected
  /\ \E i, j \in 1..Len(plan.queue) :
       /\ i < j
       /\ plan.queue[i].kind = KindDeployment /\ plan.queue[j].kind = KindDeployment
       /\ plan.queue[i].namespace = plan.queue[j].namespace
       /\ NameRank(plan.queue[j].name) < NameRank(plan.queue[i].name)

\* ---- C24
\* what identifies an item of the plan
Ident(w) == <<w.kind, w.namespace, w.name, w.strategy, w.bumpKey, w.bumpValue>>

Idents(queue) == [j \in 1..Len(queue) |-> Ident(queue[j])]

Reselected == plan.selected /\ plan.prev # <<>>

HashedIdent(w) ==
  <<w.kind, w.namespace, w.name,
    IF w.kind \in {KindStatefulSet, KindCR} THEN w.strategy ELSE "",
    IF w.kind = KindCR /\ w.bumpKey # "" THEN <<w.bumpKey, w.bumpValue>> ELSE <<>>>>

HashedIdents(queue) == [j \in 1..Len(queue) |-> HashedIdent(queue[j])]

C24_WitnessReordered ==
  /\ Reselected
  /\ \E i, j \in 1..Len(plan.queue) :
       /\ i # j /\ plan.queue[i].kind = KindDeployment
       /\ Ident(plan.queue[i]) = Ident(plan.prev[1][j])
       /\ Ident(plan.queue[j]) = Ident(plan.prev[1][i])
  /\ planHash(plan.queue) # planHash(plan.prev[1])

\* the strategy of the Deployment scope was edited and the hash stayed
C24_StrategyNotHashed ==
  /\ Reselected
  /\ Idents(plan.queue) # Idents(plan.prev[1])
  /\ planHash(plan.queue) = planHash(plan.prev[1])

\* ---- C26
RolloutStarts == { j \in 1..Len(log) : log[j][1] = "dpStart" }

\* C26: with retriggerAfterCleanup the second data-plane rollout starts only
\* after the first one completed, then the previous secret was deleted, then
\* the hold elapsed; without it at most one rollout starts, a completed
\* rotation has run exactly one, and no hold is applied
C26_SecondRolloutAfterHold ==
  /\ \A j \in 1..Len(log) :
       log[j] = <<"dpStart", 2>> =>
         /\ spec.retrigger
         /\ \E a, b, c \in 1..(j - 1) :
              /\ a < b /\ b < c
              /\ log[a] = <<"dpDone", 1>>
              /\ log[b] = <<"delPrev", 0>>
              /\ log[c] = <<"held", 0>>
  /\ \A j \in 1..Len(log) : log[j][1] = "dpStart" => log[j][2] \in 1..2
  /\ ~spec.retrigger =>
       /\ Cardinality(RolloutStarts) <= 1
       /\ ~Logged(<<"held", 0>>)
       /\ pc \notin {"hold", "ensureAgain"}
       /\ (pc = "done" /\ result = "requeue10s" /\ Logged(<<"delPrev", 0>>))
            => Cardinality(RolloutStarts) = 1

\* a reconcile with the retrigger that ran both rollouts to the end
C26_Witness ==
  /\ pc = "done" /\ result = "requeue10s"
  /\ spec.retrigger /\ spec.holdAfterCleanup
  /\ Logged(<<"dpStart", 2>>) /\ Logged(<<"dpDone", 2>>)

\* a completed rotation without the retrigger
C26_WitnessSingle ==
  /\ pc = "done" /\ result = "requeue10s"
  /\ ~spec.retrigger
  /\ Logged(<<"dpDone", 1>>) /\ Logged(<<"delPrev", 0>>)

\* ---- C27
\* the reconcile has returned after RestartLinkerdControlPlane failed: the
\* issuer secret was deleted and the control plane never finished
ControlPlaneFailed ==
  /\ pc = "done"
  /\ Logged(<<"delIssuer", 0>>)
  /\ ~Logged(<<"cpDone", 0>>)

\* the API server accepted the last status patch of the reconcile (the
\* object holds the stored lastUpdated of the response, not the local one)
LastPatchStored == obj.lastUpdated = "set"

\* C27: after a control-plane restart failure the reconcile returns the
\* error without restarting a data-plane workload or deleting the previous
\* secret, the stored cursor and retries are as the reconcile found them,
\* and the stored status (once the API server accepted MarkFailed's patch)
\* has phase Failed, reason RotationFailed and a completion time
C27_ControlPlaneFailureMarksFailed ==
  ControlPlaneFailed =>
    /\ result = "error"
    /\ \A j \in 1..Len(log) : log[j][1] \notin {"dpStart", "restart", "delPrev", "createPrev"}
    /\ prevSecret # "absent" \/ ~Logged(<<"delPrev", 0>>)
    /\ status.cursor = begin.cursor
    /\ status.retries = begin.retries
    /\ LastPatchStored =>
         /\ status.phase = PhaseFailed
         /\ status.reason = ReasonRotationFailed
         /\ status.completionTime = "set"

\* the wait for a control-plane Deployment failed after its patch, and the
\* failure was stored
C27_Witness ==
  /\ ControlPlaneFailed /\ LastPatchStored
  /\ \E j \in 1..Len(log) : log[j][1] = "cpPatch"
  /\ ~(\E j \in 1..Len(log) : log[j][1] = "cpReady")
  /\ status.phase = PhaseFailed

\* ---- C29
MutationEvents == {"statusPatch", "cpPatch", "restart", "delIssuer", "delPrev",
                   "createPrev", "verified"}

\* C29: once a wait has returned the context's error the reconcile issues
\* no further API mutation, and it returns an error
C29_NoMutationAfterCancel ==
  /\ \A j, k \in 1..Len(log) :
       (log[j] = <<"cancelled", 0>> /\ j < k) => log[k][1] \notin MutationEvents
  /\ (Cancelled /\ pc = "done") => result = "error"

\* C29 as the code behaves: the error is returned, and after the
\* cancellation nothing but status patches is sent: none after a cancelled
\* delay, SetRetry and MarkFailed after a cancelled data-plane wait,
\* MarkFailed after a cancelled control-plane wait
C29_OnlyStatusPatchesAfterCancel ==
  /\ \A j, k \in 1..Len(log) :
       (log[j] = <<"cancelled", 0>> /\ j < k) => log[k] = <<"statusPatch", 0>>
  /\ (Cancelled /\ pc = "done") => result = "error"

\* SetRetry and MarkFailed were called after a cancelled data-plane wait
C29_PatchedAfterCancel ==
  /\ pc = "done" /\ Cancelled
  /\ Len(log) >= 3
  /\ log[Len(log) - 2] = <<"cancelled", 0>>
  /\ log[Len(log) - 1] = <<"statusPatch", 0>>
  /\ log[Len(log)] = <<"statusPatch", 0>>

\* ---- C30
Ordinals(l) == [k \in 1..Len(l) |-> podOrdinal(l[k])]

\* C30: restartStatefulSetByDelete deletes the pods in descending ordinal,
\* one at a time: a pod is deleted only after every pod deleted before it
\* was read back under the same name Running, Ready and without deletion
\* timestamp; after a missed deadline no further pod is deleted
C30_OneByOneDescending ==
  /\ \A a, b \in 1..Len(sts.deleted) :
       a < b => podOrdinal(sts.deleted[a]) > podOrdinal(sts.deleted[b])
  /\ \A a \in 1..Len(sts.deleted) : sts.deleted[a] = sts.order[a]
  /\ Len(sts.deleted) <= Len(sts.seen) + 1
  /\ \A k \in 1..Len(sts.seen) :
       /\ sts.seen[k].name = sts.deleted[k]
       /\ sts.seen[k].phase = "Running" /\ sts.seen[k].ready /\ ~sts.seen[k].deleting
  /\ sts.pc \in {"timeout", "failed"} =>
       /\ Len(sts.deleted) <= Len(sts.seen) + 1
       /\ \A o \in 0..(MaxPods - 1) :
            (sts.deleted # <<>> /\ o < podOrdinal(sts.deleted[Len(sts.deleted)]))
              => \A a \in 1..Len(sts.deleted) : sts.deleted[a] # PodName(o)
  /\ sts.pc = "done" => Len(sts.deleted) = Len(sts.listed) /\ Len(sts.seen) = Len(sts.listed)

\* three pods listed out of order were deleted 2, 1, 0
C30_Witness ==
  /\ sts.pc = "done"
  /\ Ordinals(sts.listed) # Ordinals(sts.order)
  /\ Ordinals(sts.deleted) = <<2, 1, 0>>

\* the pod with ordinal 2 missed its deadline and pods 1 and 0 were left alone
C30_WitnessTimeout ==
  /\ sts.pc = "timeout"
  /\ Ordinals(sts.deleted) = <<2>>
  /\ Len(sts.order) = 3

\* ------------------------------------------------------ the wait loops
\* waitDeploymentRolledOut, waitStatefulSetRolledOut, waitDaemonSetRolledOut,
\* waitCRByAnnotationAndStatus, the loop of deletePodAndWaitSameNameReady
\* and waitJobSucceeded.  The clock counts poll intervals; the deadline is
\* MaxTicks intervals after the start of the loop.
MaxTicks == 2

KindPod == "Pod"
KindJob == "Job"
WaitKinds == {KindDeployment, KindStatefulSet, KindDaemonSet, KindCR, KindPod, KindJob}

\* the test that ends a loop with the timeout error: time.Now().After(deadline)
\* at the top of the workload loops, the for-condition time.Now().Before(deadline)
\* of the pod and job loops
DeadlinePassed(kind, now) ==
  IF kind \in {KindPod, KindJob} THEN ~(now < MaxTicks) ELSE now > MaxTicks

\* status.conditions of a Job
JobConditions ==
  UNION { [1..n -> [type : {"Failed", "Complete"}, status : BOOLEAN]] : n \in 0..2 }

\* what m.Client.Get can hand to a loop: NotFound, another error, or the
\* object; rolled is the value of the kind's readiness test on that object
Reads(kind, onDelete) ==
  { [res |-> r, rolled |-> FALSE, onDelete |-> FALSE, conds |-> <<>>] : r \in {"notFound", "error"} }
  \cup (IF kind = KindJob
        THEN { [res |-> "found", rolled |-> FALSE, onDelete |-> FALSE, conds |-> c] :
                 c \in JobConditions }
        ELSE { [res |-> "found", rolled |-> b, onDelete |-> onDelete, conds |-> <<>>] :
                 b \in BOOLEAN })

\* variant: a failed job passes
RECURSIVE JobVerdictFailedPasses(_)
JobVerdictFailedPasses(conds) ==
  IF conds = <<>> THEN "poll"
  ELSE IF Head(conds).status THEN "ok"
  ELSE JobVerdictFailedPasses(Tail(conds))

\* waitJobSucceeded's walk over the conditions
RECURSIVE JobVerdict(_)
JobVerdict(conds) ==
  IF conds = <<>> THEN "poll"
  ELSE IF Head(conds).type = "Failed" /\ Head(conds).status THEN "jobFailed"
  ELSE IF Head(conds).type = "Complete" /\ Head(conds).status THEN "ok"
  ELSE JobVerdict(Tail(conds))

\* variant: a NotFound read ends the wait like any other read error
ReadVerdictNotFoundEnds(kind, r) ==
  IF r.res # "found" THEN "readErr"
  ELSE IF kind = KindJob THEN JobVerdict(r.conds)
  ELSE IF kind = KindDaemonSet /\ r.onDelete THEN "OnDelete"
  ELSE IF r.rolled THEN "ok" ELSE "poll"

\* variant: an OnDelete DaemonSet is polled like any other
ReadVerdictPollsOnDelete(kind, r) ==
  IF r.res = "notFound" THEN "poll"
  ELSE IF r.res = "error" THEN "readErr"
  ELSE IF kind = KindJob THEN JobVerdict(r.conds)
  ELSE IF r.rolled /\ ~r.onDelete THEN "ok" ELSE "poll"

\* what one iteration does with the read: poll again, or return
ReadVerdict(kind, r) ==
  IF r.res = "notFound" THEN "poll"
  ELSE IF r.res = "error" THEN "readErr"
  ELSE IF kind = KindJob THEN JobVerdict(r.conds)
  ELSE IF kind = KindDaemonSet /\ r.onDelete THEN "OnDelete"
  ELSE IF r.rolled THEN "ok" ELSE "poll"

\* a loop entered for item i of the plan (for: "wait", "job") or on its own
WaitStart(for, i, kind, onDelete) ==
  [NoWait EXCEPT !.pc = "top", !.for = for, !.i = i, !.kind = kind, !.onDelete = onDelete,
                 !.jobs = wait.jobs]

WaitUnchanged == UNCHANGED <<spec, mainVars, sec, mut, plan, sts>>

\* the deadline test
WaitTop ==
  /\ wait.pc = "top"
  /\ wait' = IF DeadlinePassed(wait.kind, wait.now)
             THEN [wait EXCEPT !.pc = "returned", !.out = "timeout"]
             ELSE [wait EXCEPT !.pc = "select"]
  /\ WaitUnchanged

\* select: <-ctx.Done()
WaitDone ==
  /\ wait.pc = "select" /\ wait.cancelled
  /\ wait' = [wait EXCEPT !.pc = "returned", !.out = "ctx"]
  /\ WaitUnchanged

\* select: the ticker fires, then Get and the test of what was read
WaitPoll(r) ==
  /\ wait.pc = "select" /\ ~wait.cancelled
  /\ r \in Reads(wait.kind, wait.onDelete)
  /\ wait' = [wait EXCEPT !.now = @ + 1, !.last = <<r>>,
                          !.pc = IF ReadVerdict(wait.kind, r) = "poll" THEN "top" ELSE "returned",
                          !.out = IF ReadVerdict(wait.kind, r) = "poll" THEN "" ELSE ReadVerdict(wait.kind, r)]
  /\ WaitUnchanged

\* the manager cancels the context while the loop runs
WaitCancel ==
  /\ wait.pc \in {"top", "select"} /\ ~wait.cancelled
  /\ wait' = [wait EXCEPT !.cancelled = TRUE]
  /\ WaitUnchanged

\* one call of one of the loops
WaitInit ==
  /\ spec \in { c \in SpecConfigs : /\ c.onSecretsDiff /\ ~c.onConfigMapChange
                                     /\ ~c.dryRun /\ ~c.runProxyCheck /\ ~c.retrigger
                                     /\ c.maxRolloutFailures = 0 /\ c.targets = Targets }
  /\ workloads = Universe
  /\ prevSecret = "same"
  /\ bundleCerts = 1
  /\ status = EmptyStatus
  /\ obj = EmptyStatus
  /\ pc = "idle"
  /\ bundleStatus = ""
  /\ cp = NoCP
  /\ dp = NoDP
  /\ log = <<>>
  /\ result = ""
  /\ begin = NoBegin
  /\ hist = NoHist
  /\ streak = NoStreak
  /\ sec = NoSec
  /\ mut = NoMut
  /\ plan = NoPlan
  /\ sts = NoSts
  /\ \E k \in WaitKinds, od \in BOOLEAN :
       /\ od => k = KindDaemonSet
       /\ wait = [NoWait EXCEPT !.pc = "top", !.for = "call", !.kind = k, !.onDelete = od]

WaitNext ==
  \/ WaitTop
  \/ WaitDone
  \/ \E r \in Reads(wait.kind, wait.onDelete) : WaitPoll(r)
  \/ WaitCancel

WaitSpec == WaitInit /\ [][WaitNext]_vars

\* ------------------------------------------- one item after the other
\* RestartLinkerdDataPlane on a plan of a DaemonSet and a Deployment, with
\* the wait of each item and of its verification job taken poll by poll.
ItemUniverse ==
  { [kind |-> KindDaemonSet, namespace |-> "ns1", name |-> "d", inject |-> TRUE],
    [kind |-> KindDeployment, namespace |-> "ns1", name |-> "a", inject |-> TRUE] }

ItemTargets ==
  << [kindType |-> KindDaemonSet, allowedNamespaces |-> <<"ns1">>,
      rolloutStrategy |-> "", gvk |-> TRUE, annotationBump |-> <<>>],
     [kindType |-> KindDeployment, allowedNamespaces |-> <<"ns1">>,
      rolloutStrategy |-> "", gvk |-> TRUE, annotationBump |-> <<>>] >>

\* the statuses the rollout can start from: no retries yet, or one
ItemStatuses ==
  { EmptyStatus,
    [EmptyStatus EXCEPT !.retries = << [count |-> 1, lastError |-> "err",
                                        lastFailed |-> <<[kind |-> KindDeployment, namespace |-> "ns1", name |-> "a"]>>,
                                        lastErrorTime |-> "set"] >>] }

ItemInit ==
  /\ spec \in { [c EXCEPT !.targets = ItemTargets] :
                   c \in { x \in SpecConfigs : /\ x.onSecretsDiff /\ ~x.onConfigMapChange
                                                /\ ~x.dryRun /\ ~x.retrigger
                                                /\ x.maxRolloutFailures = 0 /\ x.targets = Targets } }
  /\ workloads = ItemUniverse
  /\ prevSecret = "differs"
  /\ bundleCerts = 2
  /\ status \in ItemStatuses
  /\ obj = status
  /\ pc = "dpSelect"
  /\ bundleStatus = BundleStateOverlap
  /\ cp = NoCP
  /\ dp = NoDP
  /\ log = <<>>
  /\ result = ""
  /\ begin = [NoBegin EXCEPT !.retries = status.retries]
  /\ hist = NoHist
  /\ streak = NoStreak
  /\ sec = NoSec
  /\ mut = NoMut
  /\ plan = NoPlan
  /\ sts = NoSts
  /\ wait = NoWait

\* the loop of the running item's step (for: "wait", "job") has been entered
Entered(for) == wait.for = for /\ wait.i = dp.i /\ wait.pc # "idle"

\* waitDaemonSetRolledOut / waitDeploymentRolledOut is called for the item;
\* a DaemonSet has the update strategy OnDelete or RollingUpdate
ItemWaitBegin(onDelete) ==
  /\ pc = "dpWait" /\ ~Entered("wait")
  /\ onDelete => Item.kind = KindDaemonSet
  /\ wait' = WaitStart("wait", dp.i, Item.kind, onDelete)
  /\ WaitUnchanged

\* ... and returns
ItemWaitReturn ==
  /\ Entered("wait") /\ wait.pc = "returned"
  /\ DPWait(wait.out = "ok")

\* runProxyCheckIfEnabled without LinkerdCheckProxy
ItemCheckSkipped ==
  /\ ~spec.runProxyCheck
  /\ DPProxyCheck(TRUE)

\* runLinkerdCheckJob: the Job is created and waitJobSucceeded is called
ItemJobCreate ==
  /\ pc = "dpCheck" /\ spec.runProxyCheck /\ ~Entered("job")
  /\ wait' = [WaitStart("job", dp.i, KindJob, FALSE) EXCEPT !.jobs = Append(wait.jobs, dp.i)]
  /\ WaitUnchanged

\* ... or m.Client.Create fails
ItemJobCreateFails ==
  /\ spec.runProxyCheck /\ ~Entered("job")
  /\ DPProxyCheck(FALSE)

\* waitJobSucceeded returns
ItemCheckReturn ==
  /\ spec.runProxyCheck /\ Entered("job") /\ wait.pc = "returned"
  /\ DPProxyCheck(wait.out = "ok")

ItemNext ==
  \/ DPSelect(TRUE)
  \/ DPSetPhase(TRUE)
  \/ DPInitCursor(TRUE)
  \/ DPSetProgress(TRUE)
  \/ \E ok \in BOOLEAN : DPApplyRestart(ok)
  \/ \E onDelete \in BOOLEAN : ItemWaitBegin(onDelete)
  \/ WaitTop
  \/ \E r \in Reads(wait.kind, wait.onDelete) : WaitPoll(r)
  \/ ItemWaitReturn
  \/ ItemCheckSkipped
  \/ ItemJobCreate
  \/ ItemJobCreateFails
  \/ ItemCheckReturn
  \/ DPBumpCursor(TRUE)
  \/ DPBumpProgress(TRUE)
  \/ \E ok \in BOOLEAN : DPRecordFailure(ok)
  \/ DPFinishPhase(TRUE)
  \/ DPClearRetry(TRUE)
  \/ DPResetCursor(TRUE)

ItemSpec == ItemInit /\ [][ItemNext]_vars

\* -------------------------------- the control plane, Deployment by Deployment
\* RestartLinkerdControlPlane on the Deployments the labelled List returns:
\* any of the names 1..MaxCPNames, in any order.
MaxCPNames == 3

ControlPlaneLists ==
  UNION { { l \in [1..Cardinality(S) -> S] : \A i, j \in 1..Cardinality(S) : l[i] = l[j] => i = j } :
            S \in SUBSET (1..MaxCPNames) }

\* variant: ascending names
RECURSIVE SortAscendingName(_)
SortAscendingName(l) ==
  IF l = <<>> THEN <<>>
  ELSE LET rest == SortAscendingName(Tail(l))
       IN SelectSeq(rest, LAMBDA n : n < Head(l)) \o <<Head(l)>>
          \o SelectSeq(rest, LAMBDA n : ~(n < Head(l)))

\* sort.Slice with Items[i].Name > Items[j].Name
RECURSIVE SortDescendingName(_)
SortDescendingName(l) ==
  IF l = <<>> THEN <<>>
  ELSE LET rest == SortDescendingName(Tail(l))
       IN SelectSeq(rest, LAMBDA n : n > Head(l)) \o <<Head(l)>>
          \o SelectSeq(rest, LAMBDA n : ~(n > Head(l)))

\* SelectLinkerdControlPlane returns listed; the sort happens after the
\* two status writes and before the loop
CPSelectListed(listed, ok) ==
  /\ pc = "cpSelect"
  /\ IF ok THEN /\ pc' = "cpSetPhase"
                /\ cp' = [cp EXCEPT !.todo = SortDescendingName(listed)]
                /\ log' = log \o [j \in 1..Len(listed) |-> <<"cpListed", listed[j]>>]
     ELSE pc' = AfterControlPlane(TRUE) /\ UNCHANGED <<cp, log>>
  /\ UNCHANGED <<envVars, status, obj, hist, bundleStatus, dp, result, begin, streak, sec, mut, plan, sts, wait>>

\* the reconcile has written Idle and the progress, and detected overlap
ControlInit ==
  /\ spec \in { c \in SpecConfigs : /\ c.onSecretsDiff /\ ~c.onConfigMapChange
                                     /\ ~c.dryRun /\ ~c.runProxyCheck /\ ~c.retrigger
                                     /\ c.maxRolloutFailures = 0 /\ c.targets = Targets }
  /\ workloads = Universe
  /\ prevSecret = "differs"
  /\ bundleCerts = 2
  /\ status = [SetProgressNilOf(SetPhaseOf(EmptyStatus, PhaseDetecting, "nil"), TRUE)
                 EXCEPT !.lastUpdated = "set"]
  /\ obj = status
  /\ pc = "cpSelect"
  /\ bundleStatus = BundleStateOverlap
  /\ cp = NoCP
  /\ dp = NoDP
  /\ log = <<>>
  /\ result = ""
  /\ begin = NoBegin
  /\ hist = NoHist
  /\ streak = NoStreak
  /\ sec = NoSec
  /\ mut = NoMut
  /\ plan = NoPlan
  /\ sts = NoSts
  /\ wait = NoWait

ControlNext ==
  \/ \E listed \in ControlPlaneLists, ok \in BOOLEAN : CPSelectListed(listed, ok)
  \/ \E ok \in BOOLEAN : CPSetPhase(ok)
  \/ \E ok \in BOOLEAN : CPSetProgressFalse(ok)
  \/ \E ok \in BOOLEAN : CPBump(ok)
  \/ \E ok \in BOOLEAN : CPWait(ok)
  \/ \E ok \in BOOLEAN : CPSetProgressTrue(ok)
  \/ \E ok \in BOOLEAN : CPSetPhaseReady(ok)
  \/ \E ok \in BOOLEAN : MarkFailed(ok)

ControlSpec == ControlInit /\ [][ControlNext]_vars

\* ---- C33
\* the read the loop made last
LastRead == wait.last[1]

\* the readiness test holds on the object read last
ReadyRead ==
  /\ wait.last # <<>> /\ LastRead.res = "found"
  /\ IF wait.kind = KindJob
     THEN \E j \in 1..Len(LastRead.conds) :
            /\ LastRead.conds[j] = [type |-> "Complete", status |-> TRUE]
            /\ \A h \in 1..(j - 1) : LastRead.conds[h] # [type |-> "Failed", status |-> TRUE]
     ELSE LastRead.rolled

\* the loop itself can take a step
LoopCanStep == ENABLED (WaitTop \/ WaitDone \/ \E r \in Reads(wait.kind, wait.onDelete) : WaitPoll(r))

\* C33: every per-item wait (Deployment, StatefulSet, DaemonSet,
\* CustomResource, recreated pod, verification job) terminates: it never
\* polls more often than the deadline allows and is never stuck; it returns
\* success only when the readiness test holds on the object it has just
\* read, the timeout error only once the deadline has passed (and never
\* polls after that), the context error on cancellation, a read error other
\* than not-found at once; a not-found read never ends the wait, which then
\* ends by the deadline or by cancellation only.
C33_WaitsTerminate ==
  wait.for = "call" =>
    /\ wait.now <= MaxTicks + 1
    /\ wait.pc \in {"top", "select"} => LoopCanStep
    /\ wait.pc = "select" =>
          IF wait.kind \in {KindPod, KindJob} THEN wait.now < MaxTicks ELSE wait.now <= MaxTicks
    /\ wait.pc \in {"top", "select"} /\ wait.last # <<>> => LastRead.res # "error"
    /\ wait.pc = "returned" =>
          /\ wait.out \in {"ok", "timeout", "ctx", "readErr", "OnDelete", "jobFailed"}
          /\ wait.out = "ok" => ReadyRead
          /\ wait.out = "timeout" => wait.now >= MaxTicks
          /\ wait.out = "ctx" => wait.cancelled
          /\ wait.cancelled => wait.out \in {"ctx", "timeout"}
          /\ wait.out = "readErr" <=> (wait.last # <<>> /\ LastRead.res = "error")
          /\ (wait.last # <<>> /\ LastRead.res = "notFound") => wait.out \in {"timeout", "ctx"}

\* a wait that only ever read not-found and ended with the timeout error
C33_Witness ==
  /\ wait.for = "call" /\ wait.pc = "returned" /\ wait.out = "timeout"
  /\ wait.last # <<>> /\ LastRead.res = "notFound" /\ ~wait.cancelled

\* a wait that read not-found and was then cancelled
C33_WitnessCancelled ==
  /\ wait.for = "call" /\ wait.pc = "returned" /\ wait.out = "ctx"
  /\ wait.last # <<>> /\ LastRead.res = "notFound"

\* ---- C31
\* the wait of the running item has read a DaemonSet whose strategy is OnDelete
OnDeleteRead ==
  /\ dp.queue # <<>> /\ dp.i < Len(dp.queue) /\ Item.kind = KindDaemonSet
  /\ Entered("wait") /\ wait.onDelete
  /\ wait.last # <<>> /\ LastRead.res = "found"

\* the count stored when the item was started
CountBefore == IF dp.itemRetries = <<>> THEN 0 ELSE dp.itemRetries[1].count

\* C31: the first read that finds a selected DaemonSet with the OnDelete
\* update strategy ends the item's wait with the OnDelete diagnostic,
\* whatever time is left to the deadline; the item goes to recordFailure
\* and never to the verification or the cursor; once recordFailure's patch
\* is stored, retries.count is one more than before, lastFailed is that
\* DaemonSet, lastError the diagnostic, and the cursor is as it was when
\* the item was started, cursor.next being the item's index.
C31_OnDeleteFailsAtOnce ==
  OnDeleteRead =>
    /\ wait.pc = "returned" /\ wait.out = "OnDelete"
    /\ pc \in {"dpWait", "dpRecordFailure", "markFailed"}
    /\ pc = "markFailed" /\ dp.recorded =>
          /\ status.retries # <<>>
          /\ status.retries[1].count = CountBefore + 1
          /\ status.retries[1].lastFailed = <<WorkRef(Item)>>
          /\ status.retries[1].lastError = "OnDelete"
          /\ status.cursor = dp.itemCursor
          /\ status.cursor # <<>> /\ status.cursor[1].next = dp.i

\* the failure of the DaemonSet recorded as the second retry after one poll
C31_Witness ==
  /\ OnDeleteRead /\ pc = "markFailed" /\ dp.recorded
  /\ wait.now = 1 /\ wait.now < MaxTicks
  /\ status.retries[1].count = 2

\* ---- C32
\* the items a verification job was created for
JobItems == { wait.jobs[j] : j \in 1..Len(wait.jobs) }

\* the verification job of the running item ended without Complete=True
JobNotComplete ==
  /\ dp.queue # <<>> /\ dp.i < Len(dp.queue)
  /\ Entered("job") /\ wait.pc = "returned" /\ wait.out \in {"jobFailed", "timeout"}

\* C32: with runProxyCheck enabled, a verification job is created for an
\* item only after that item's wait succeeded, and at most once per item;
\* the item reaches bumpProgress, and the stored cursor goes past it, only
\* after its job was read with Complete=True (and no Failed=True before it);
\* a job that failed or timed out sends the item to recordFailure, which
\* stores retries.count + 1 for that item and leaves the cursor at it.
\* With runProxyCheck disabled no job is ever created.
C32_VerificationGatesCursor ==
  /\ ~spec.runProxyCheck => wait.jobs = <<>> /\ wait.kind # KindJob
  /\ spec.runProxyCheck =>
       /\ \A i \in JobItems : Logged(<<"ready", i>>)
       /\ \A j, h \in 1..Len(wait.jobs) : wait.jobs[j] = wait.jobs[h] => j = h
       /\ pc \in {"dpBumpCursor", "dpBumpProgress"} =>
             Entered("job") /\ wait.pc = "returned" /\ wait.out = "ok" /\ ReadyRead
       /\ status.cursor # <<>> =>
             \A i \in 0..(status.cursor[1].next - 1) : i \in JobItems /\ Logged(<<"verified", i>>)
       /\ \A i \in 0..1 : Logged(<<"done", i>>) => Logged(<<"verified", i>>)
       /\ JobNotComplete =>
             /\ pc \in {"dpCheck", "dpRecordFailure", "markFailed"}
             /\ pc = "markFailed" /\ dp.recorded =>
                   /\ status.retries # <<>>
                   /\ status.retries[1].count = CountBefore + 1
                   /\ status.retries[1].lastFailed = <<WorkRef(Item)>>
                   /\ status.cursor # <<>> /\ status.cursor[1].next = dp.i

\* both items verified and the cursor past the first when the second job is running
C32_Witness ==
  /\ spec.runProxyCheck /\ status.cursor # <<>> /\ status.cursor[1].next = 1
  /\ Entered("job") /\ wait.i = 1 /\ wait.jobs = <<0, 1>>

\* the second item's job failed and the failure was recorded
C32_WitnessFailed ==
  /\ spec.runProxyCheck /\ JobNotComplete /\ wait.out = "jobFailed" /\ dp.i = 1
  /\ pc = "markFailed" /\ dp.recorded

\* a rollout without verification that ran to its end
C32_WitnessDisabled ==
  /\ ~spec.runProxyCheck /\ Logged(<<"dpDone", 1>>)

\* ---- C34
\* the names the log holds for an event, in the order of the log
RECURSIVE EventNames(_, _)
EventNames(l, e) ==
  IF l = <<>> THEN <<>>
  ELSE IF Head(l)[1] = e THEN <<Head(l)[2]>> \o EventNames(Tail(l), e)
  ELSE EventNames(Tail(l), e)

\* the position of event e for name n in the log (0: none)
EventAt(e, n) ==
  IF Logged(<<e, n>>) THEN CHOOSE j \in 1..Len(log) : log[j] = <<e, n>> ELSE 0

CPListed == { log[j][2] : j \in { h \in 1..Len(log) : log[h][1] = "cpListed" } }
CPPatched == EventNames(log, "cpPatch")
CPRolledOut == EventNames(log, "cpReady")

StoredCPReady == status.progress # <<>> /\ status.progress[1].controlPlaneReady

\* C34: the control-plane Deployments are patched in descending name
\* order, each listed Deployment at most once and the k-th patch going to
\* the k-th largest listed name; a Deployment is patched only after the
\* one before it rolled out; an error ends the restart, so the Deployments
\* after the failed one are never patched; the stored controlPlaneReady is
\* false whenever a Deployment is patched or waited for, and is true again
\* only after every listed Deployment rolled out.
C34_ControlPlaneInOrder ==
  /\ \A j \in 1..Len(CPPatched) :
        /\ CPPatched[j] \in CPListed
        /\ Cardinality({ n \in CPListed : n > CPPatched[j] }) = j - 1
        /\ j > 1 => /\ EventAt("cpReady", CPPatched[j - 1]) > 0
                    /\ EventAt("cpReady", CPPatched[j - 1]) < EventAt("cpPatch", CPPatched[j])
  /\ Len(CPRolledOut) <= Len(CPPatched) /\ Len(CPPatched) <= Len(CPRolledOut) + 1
  /\ \A j \in 1..Len(CPRolledOut) : CPRolledOut[j] = CPPatched[j]
  /\ pc \in {"cpBump", "cpWait", "cpReadyProgress"} => ~StoredCPReady
  /\ Len(CPPatched) > 0 /\ StoredCPReady => { CPRolledOut[j] : j \in 1..Len(CPRolledOut) } = CPListed
  /\ pc = "cpReadyPhase" => StoredCPReady /\ { CPRolledOut[j] : j \in 1..Len(CPRolledOut) } = CPListed

\* three Deployments listed out of order, the second failed to roll out
C34_Witness ==
  /\ CPListed = {1, 2, 3} /\ log[1] = <<"cpListed", 2>>
  /\ CPPatched = <<3, 2>> /\ CPRolledOut = <<3>>
  /\ pc = "done" /\ result = "error" /\ ~StoredCPReady

\* three Deployments rolled out and controlPlaneReady stored true
C34_WitnessAll ==
  /\ CPRolledOut = <<3, 2, 1>> /\ log[1] = <<"cpListed", 1>> /\ pc = "dpSelect" /\ StoredCPReady

\* ---- C35
\* the step is the reconcile's SetPhase(Idle), and it succeeded
IdlePhaseStep == pc = "setIdle" /\ pc' = "setProgress"

\* the step is the reconcile's SetProgress(true, nil, nil), and it succeeded
IdleProgressStep == pc = "setProgress" /\ pc' = "detect"

\* C35: the first status write of a reconcile that found the resource
\* leaves the stored phase Idle with an empty reason, the second leaves the
\* stored progress {controlPlaneReady = true, dataPlanePercent = 0},
\* whatever the phase was before, Succeeded and Failed included; neither
\* write changes the stored cursor, retries or completionTime.
C35_IdleAtStart ==
  [][ /\ IdlePhaseStep => status'.phase = PhaseIdle /\ status'.reason = ""
      /\ IdleProgressStep =>
            /\ status'.phase = PhaseIdle /\ status'.reason = ""
            /\ status'.progress = << [controlPlaneReady |-> TRUE, dataPlanePercent |-> 0] >>
      /\ IdlePhaseStep \/ IdleProgressStep =>
            /\ status'.cursor = status.cursor
            /\ status'.retries = status.retries
            /\ status'.completionTime = status.completionTime ]_vars

\* both writes done in a reconcile that found a failed rollout: retries,
\* a cursor past the first item and a completion time are still stored
C35_Witness ==
  /\ pc = "detect" /\ status.phase = PhaseIdle
  /\ status.retries # <<>> /\ status.retries[1].count > 0
  /\ status.cursor # <<>> /\ status.cursor[1].next > 0
  /\ status.completionTime = "set"

\* a reconcile starts on a stored phase Succeeded
C35_WitnessSucceeded ==
  /\ pc = "setIdle" /\ status.phase = PhaseSucceeded

\* ---- C36
\* the reconcile is in, or has entered, RestartLinkerdDataPlane
InDataPlane == pc = "dpSelect" \/ Logged(<<"dpStart", 1>>)

\* C36: a reconcile reaches the data-plane rollout only after it deleted
\* the identity-issuer secret and then patched and rolled out every
\* control-plane Deployment, RestartLinkerdControlPlane returning success;
\* a rollout that resumes at cursor.next > 0 is no exception: the cursor
\* skips data-plane items only.
C36_ControlPlaneEveryTime ==
  InDataPlane =>
    /\ ~spec.dryRun
    /\ \E c \in 1..Len(log) :
         /\ log[c] = <<"cpDone", 0>>
         /\ \A j \in 1..Len(log) : log[j][1] = "dpStart" => c < j
         /\ \A d \in 1..MaxCP :
              \E i, a, b \in 1..(c - 1) :
                /\ i < a /\ a < b
                /\ log[i] = <<"delIssuer", 0>> /\ log[a] = <<"cpPatch", d>> /\ log[b] = <<"cpReady", d>>

\* a rollout resumed past the first item, after the issuer secret was deleted and the control plane restarted
C36_Witness ==
  /\ pc = "dpRestart" /\ dp.n = 1 /\ dp.resumed /\ dp.start > 0
  /\ begin.cursor # <<>> /\ begin.cursor[1].next > 0
  /\ Logged(<<"delIssuer", 0>>) /\ Logged(<<"cpDone", 0>>)

\* ---- C37: the retry limit is a state the controller does not leave

\* the stored status holds more failures than the spec allows
StoredExceeded ==
  status.retries # <<>> /\ status.retries[1].count > spec.maxRolloutFailures

\* events of the log that restart a workload or delete a secret
WorkEvents == {"restart", "cpPatch", "delIssuer", "delPrev"}

\* the step adds no restart and no deletion to the log
NoNewWork ==
  \/ log' = log
  \/ log' = <<>>
  \/ /\ Len(log') = Len(log) + 1
     /\ log'[Len(log')][1] \notin WorkEvents

\* a reconcile that found the limit exceeded, an overlap and no dry run ends
\* in Failed / MaxRetriesExceeded with the limit still exceeded
StuckEnd ==
  (pc = "done" /\ Exceeded /\ bundleStatus = BundleStateOverlap /\ ~spec.dryRun) =>
    /\ result \in {"requeue1m", "error"}
    /\ result = "requeue1m" =>
         /\ status.phase = PhaseFailed
         /\ status.reason = ReasonMaxRetriesExceeded
    /\ StoredExceeded
    /\ \A j \in 1..Len(log) : log[j][1] \notin WorkEvents

\* C37: once the stored retries.count is above maxRolloutFailures, no step of
\* the controller changes retries or the cursor, restarts a workload or
\* deletes a secret while the spec stays as it is, and every reconcile that
\* then detects an overlap ends in Failed / MaxRetriesExceeded with the count
\* still above the limit.
C37_LimitIsAbsorbing ==
  /\ []StuckEnd
  /\ [][(StoredExceeded /\ spec' = spec) =>
          /\ status'.retries = status.retries
          /\ status'.cursor = status.cursor
          /\ NoNewWork]_vars

\* a reconcile that started from the state the limit left behind is refused again
C37_Witness ==
  /\ pc = "done"
  /\ result = "requeue1m"
  /\ Exceeded
  /\ begin.cursor # <<>>
  /\ bundleStatus = BundleStateOverlap
  /\ Logged(<<"MaxRetriesExceeded", 0>>)
  /\ status.phase = PhaseFailed
  /\ status.reason = ReasonMaxRetriesExceeded
  /\ StoredExceeded

\* the next reconcile starts on the status the limit branch stored
C37_WitnessLater ==
  /\ pc = "setIdle"
  /\ status.phase = PhaseFailed
  /\ status.reason = ReasonMaxRetriesExceeded
  /\ StoredExceeded

\* ---- C38: retries.count counts the failures of the whole rollout

\* retries.count of a status, 0 for a nil Retries
CountOf(st) == IF st.retries = <<>> THEN 0 ELSE st.retries[1].count

\* the running rollout has completed every item from its start to the end
RanToCompletion ==
  /\ dp.inited
  /\ dp.i = Len(dp.queue)
  /\ \A k \in dp.start..(Len(dp.queue) - 1) :
       \E j \in RolloutPos : log[j] = <<"done", k>>

\* C38: the stored retries change in two steps only: recordFailure adds one
\* to the count whichever item failed before and wherever the cursor stands,
\* and the SetRetry(nil, 0, "") of a rollout that ran to completion puts it
\* back to 0; no other step (a completed item, a cursor reset on a new plan
\* hash, a control-plane or detection failure) changes them.
C38_CountIsCumulative ==
  [][ \/ status'.retries = status.retries
      \/ /\ pc = "dpRecordFailure"
         /\ CountOf(status') = CountOf(status) + 1
         /\ status'.retries[1].lastFailed = <<WorkRef(Item)>>
      \/ /\ pc = "dpClearRetry"
         /\ RanToCompletion
         /\ CountOf(status') = 0 ]_vars

\* a second failure, on another item than the first, after the first item
\* was completed: the count is 2
C38_Witness ==
  /\ pc = "done"
  /\ dp.recorded
  /\ begin.retries # <<>>
  /\ begin.retries[1].count >= 1
  /\ begin.retries[1].lastFailed # <<WorkRef(Item)>>
  /\ CountOf(status) = begin.retries[1].count + 1

\* the plan hash changed and the cursor went back to 0 with the count kept
C38_WitnessNewPlan ==
  /\ pc = "dpProgress"
  /\ dp.cursor0 # <<>>
  /\ dp.cursor0[1].next > 0
  /\ dp.cursor0[1].planHash # planHash(dp.queue)
  /\ status.cursor # <<>>
  /\ status.cursor[1].next = 0
  /\ status.cursor[1].planHash = planHash(dp.queue)
  /\ CountOf(status) >= 1

\* a rollout that ran to completion has put the count back to 0
C38_WitnessCleared ==
  /\ pc = "dpResetCursor"
  /\ begin.retries # <<>>
  /\ begin.retries[1].count >= 1
  /\ CountOf(status) = 0

\* ---- C39: the stored cursor names the item before cursor.next

\* kind, namespace and name of an item as its line of the plan hash holds them
LineRef(line) == [kind |-> line[1], namespace |-> line[2], name |-> line[3]]

\* C39: in every stored status with a cursor, lastDone is nil when
\* cursor.next = 0, and when cursor.next > 0 it is the reference of the item
\* at index cursor.next - 1 of the plan that cursor.planHash is the hash of.
C39_LastDoneIsPrevious ==
  status.cursor # <<>> =>
    LET c == status.cursor[1] IN
      IF c.next > 0
      THEN /\ c.next <= Len(c.planHash)
           /\ c.next <= c.total
           /\ c.lastDone = << LineRef(c.planHash[c.next]) >>
      ELSE c.lastDone = <<>>

\* the cursor stands behind the second item of a plan
C39_Witness ==
  /\ status.cursor # <<>>
  /\ status.cursor[1].next = 2
  /\ status.cursor[1].lastDone = << LineRef(status.cursor[1].planHash[2]) >>
  /\ status.cursor[1].lastDone # << LineRef(status.cursor[1].planHash[1]) >>

\* a cursor that stood behind an item was put back to 0
C39_WitnessReset ==
  /\ begin.cursor # <<>>
  /\ begin.cursor[1].next > 0
  /\ status.cursor # <<>>
  /\ status.cursor[1].next = 0
  /\ status.cursor[1].lastDone = <<>>

\* ---- C40: how a reconcile ends when the data-plane rollout fails

\* the reconcile has returned and its last data-plane rollout did not finish
RolloutFailed ==
  /\ pc = "done"
  /\ RolloutStart > 0
  /\ \A j \in RolloutPos : log[j][1] \notin {"dpDone", "cancelled"}

\* Reconcile returns the error; the status MarkFailed stored has reason
\* RotationFailed and a completion time
FailedAndReturned ==
  RolloutFailed =>
    /\ result = "error"
    /\ status.phase = PhaseFailed =>
         /\ status.reason = ReasonRotationFailed
         /\ status.completionTime = "set"

\* the first rollout failed: the previous-anchor secret was not deleted
PreviousSecretKept ==
  (RolloutFailed /\ dp.n = 1) => \A j \in 1..Len(log) : log[j][1] # "delPrev"

\* the stored cursor points at the item whose failure ended the rollout
CursorAtFailedItem ==
  (RolloutFailed /\ dp.failedStep # "") =>
    /\ status.cursor # <<>>
    /\ status.cursor[1].next = dp.i

\* C40: a reconcile whose data-plane rollout failed, first or retriggered,
\* returns the error with phase Failed, reason RotationFailed and a
\* completion time, the stored cursor pointing at the failed item, and the
\* previous-anchor secret kept when it was the first rollout that failed.
C40_FailureEndsAtFailedItem ==
  /\ FailedAndReturned
  /\ PreviousSecretKept
  /\ CursorAtFailedItem

====
